---- MODULE Spec2Model ----
(***************************************************************************)
(* A model of the agentzero-core TaskManager (goal/task manager) over the  *)
(* AtomSpace it writes to.                                                 *)
(*                                                                         *)
(* Handles are modelled by the content of the atom they point to: the      *)
(* AtomSpace returns the existing atom when add_node / add_link is called  *)
(* with a type and name (or outgoing set) that is already present, so two  *)
(* handles are equal exactly when their contents are.                      *)
(*                                                                         *)
(* Truth values are pairs <<strength, confidence>> in thousandths.         *)
(***************************************************************************)
EXTENDS Integers, Sequences, FiniteSets, TLC

VARIABLES
    atoms,                      \* the atoms of the AtomSpace
    tv,                         \* truth values set on atoms
    task_queue,                 \* TaskManager::_task_queue
    task_status,                \* TaskManager::_task_status
    task_priorities,            \* TaskManager::_task_priorities
    task_dependencies,          \* TaskManager::_task_dependencies
    current_task,               \* TaskManager::_current_task
    current_goal,               \* TaskManager::_current_goal
    enable_goal_decomposition,  \* TaskManager::_enable_goal_decomposition
    enable_priority_scheduling, \* TaskManager::_enable_priority_scheduling
    hashSeed,                   \* selects the content order of handles
    call_stack,                 \* the pending calls of calculateGoalAchievement
    concept_registry,           \* KnowledgeIntegrator::_concept_registry
    enable_concept_formation,   \* KnowledgeIntegrator::_enable_concept_formation
    running,                    \* CognitiveLoop::_running
    paused,                     \* CognitiveLoop::_paused
    loop_thread,                \* CognitiveLoop::_loop_thread: a thread or NoThread
    cycle_count,                \* CognitiveLoop::_cycle_count
    enable_phase,               \* CognitiveLoop::_enable_perception, ..._reflection
    threads,                    \* the threads start() has created, running runMainLoop
    calls,                      \* the calls of CognitiveLoop methods in progress
    terminated                  \* std::terminate was called: the process is gone

\* the state of the CognitiveLoop and of the threads in it
loop_vars == <<running, paused, loop_thread, cycle_count, enable_phase, threads,
               calls, terminated>>

vars == <<atoms, tv, task_queue, task_status, task_priorities, task_dependencies,
          current_task, current_goal, enable_goal_decomposition,
          enable_priority_scheduling, hashSeed, call_stack, concept_registry,
          enable_concept_formation, loop_vars>>

(***************************************************************************)
(* Bounds of the model.                                                    *)
(***************************************************************************)
\* createTask is called directly while the queue is shorter than this
MaxQueue == 3
\* addTaskDependency is called while fewer dependency entries are recorded
MaxDeps == 2
\* setGoal is called while fewer top-level goals exist
MaxGoals == 2
\* the handle orders tried: hash multipliers 1..MaxHashSeed and their negatives
MaxHashSeed == 1
\* hierarchy edges addSubgoal is called to create
MaxSubgoals == 3

(***************************************************************************)
(* Inputs.                                                                 *)
(***************************************************************************)
AgentName == "AgentZero"

\* descriptions passed to createTask
TaskDescriptionSeq == <<"A", "B">>

\* descriptions passed to setGoal: the empty one, one per keyword category
\* of decomposeGoal, and one that is also the name of a template step
GoalDescriptionSeq ==
    <<"", "solve the problem", "learn chess", "build a robot", "interact", "tidy",
      "Define_Problem">>

\* the descriptions setGoal(d, false) and addSubgoal are called with where
\* goals get their subgoals one by one
RootDescriptionSeq == <<"", "tidy">>

SubgoalDescriptionSeq == <<"", "sweep", "mop">>

\* descriptions passed to addFact: two facts about one subject
FactDescriptionSeq == <<"Sun is hot", "Sun is cold">>

\* descriptions passed to addEpisode: the experience items of concept formation
EpisodeDescriptionSeq == <<"x Cat sat", "y cat, on">>

\* names passed to registerConcept
ConceptNameSeq == <<"Sun", "Concept_cat">>

Range(seq) == {seq[i] : i \in 1..Len(seq)}

TaskDescriptions == Range(TaskDescriptionSeq)

GoalDescriptions == Range(GoalDescriptionSeq)

RootDescriptions == Range(RootDescriptionSeq)

SubgoalDescriptions == Range(SubgoalDescriptionSeq)

(***************************************************************************)
(* enum class Priority and enum class TaskStatus.                          *)
(***************************************************************************)
LOW == 1
MEDIUM == 5
HIGH == 10
CRITICAL == 20

Priority == {LOW, MEDIUM, HIGH, CRITICAL}

PENDING == "PENDING"
ACTIVE == "ACTIVE"
COMPLETED == "COMPLETED"
FAILED == "FAILED"
CANCELLED == "CANCELLED"
SUSPENDED == "SUSPENDED"

TaskStatus == {PENDING, ACTIVE, COMPLETED, FAILED, CANCELLED, SUSPENDED}

(***************************************************************************)
(* Atoms and handles.                                                      *)
(***************************************************************************)
UNDEFINED == [type |-> "UNDEFINED"]

Node(type, name) == [type |-> type, name |-> name]

Link(type, out) == [type |-> type, out |-> out]

IsNode(h) == "name" \in DOMAIN h

IsLink(h) == "out" \in DOMAIN h

\* std::map operator[] assignment
MapPut(m, k, v) == [x \in DOMAIN m \cup {k} |-> IF x = k THEN v ELSE m[x]]

\* std::string::find(k) != npos
Contains(s, k) ==
    \E i \in 1..(Len(s) - Len(k) + 1) : SubSeq(s, i, i + Len(k) - 1) = k

\* std::string::find(k) == 0
StartsWith(s, k) == Len(s) >= Len(k) /\ SubSeq(s, 1, Len(k)) = k

(***************************************************************************)
(* The subgoal templates of decomposeGoal, and the keyword match that      *)
(* selects one from the name of the goal atom.                             *)
(***************************************************************************)
LearningTemplate ==
    <<"Identify_Learning_Objectives", "Gather_Resources", "Acquire_Knowledge",
      "Practice_Skills", "Validate_Understanding">>

ProblemSolvingTemplate ==
    <<"Define_Problem", "Analyze_Constraints", "Generate_Solutions",
      "Evaluate_Options", "Implement_Solution", "Test_Result">>

CreationTemplate ==
    <<"Conceptualize_Design", "Plan_Implementation", "Gather_Resources",
      "Execute_Construction", "Test_Quality", "Refine_Output">>

CommunicationTemplate ==
    <<"Understand_Context", "Plan_Message", "Select_Medium",
      "Deliver_Communication", "Verify_Understanding">>

GenericTemplate ==
    <<"Analyze_Goal_Context", "Plan_Approach", "Identify_Resources",
      "Execute_Actions", "Monitor_Progress", "Verify_Achievement">>

Templates ==
    {LearningTemplate, ProblemSolvingTemplate, CreationTemplate,
     CommunicationTemplate, GenericTemplate}

SubgoalTemplate(goal_name) ==
    IF Contains(goal_name, "learn") \/ Contains(goal_name, "study")
        THEN LearningTemplate
    ELSE IF Contains(goal_name, "solve") \/ Contains(goal_name, "problem")
        THEN ProblemSolvingTemplate
    ELSE IF Contains(goal_name, "create") \/ Contains(goal_name, "build")
        THEN CreationTemplate
    ELSE IF Contains(goal_name, "communicate") \/ Contains(goal_name, "interact")
        THEN CommunicationTemplate
    ELSE GenericTemplate

(***************************************************************************)
(* The order of handles.  std::map<Handle, ...> iterates its keys in the   *)
(* order of Handle::operator<, and the AtomSpace enumerates the atoms of a *)
(* type in an order of its own; both are fixed by the content of the atoms *)
(* and are not specified.  The model orders nodes by a hash of their name  *)
(* that Init draws from a family: every pair of names occurs in both       *)
(* orders.                                                                 *)
(***************************************************************************)
HashedNames ==
    <<"active_goal", "suspended", "decomposed">>
    \o [i \in 1..Len(TaskDescriptionSeq) |-> "Task_" \o TaskDescriptionSeq[i]]
    \o [i \in 1..Len(GoalDescriptionSeq) |-> "Task_Primary_" \o GoalDescriptionSeq[i]]
    \o [i \in 1..Len(LearningTemplate) |-> "Task_Task_" \o LearningTemplate[i]]
    \o [i \in 1..Len(ProblemSolvingTemplate) |-> "Task_Task_" \o ProblemSolvingTemplate[i]]
    \o [i \in 1..Len(CreationTemplate) |-> "Task_Task_" \o CreationTemplate[i]]
    \o [i \in 1..Len(CommunicationTemplate) |-> "Task_Task_" \o CommunicationTemplate[i]]
    \o [i \in 1..Len(GenericTemplate) |-> "Task_Task_" \o GenericTemplate[i]]
    \o [i \in 1..Len(RootDescriptionSeq) |-> "Task_Primary_" \o RootDescriptionSeq[i]]
    \o [i \in 1..Len(FactDescriptionSeq) |-> "Fact_" \o FactDescriptionSeq[i]]

NameIndex ==
    [n \in Range(HashedNames) |->
        CHOOSE i \in 1..Len(HashedNames) :
            /\ HashedNames[i] = n
            /\ \A j \in 1..(i - 1) : HashedNames[j] # n]

HashSeeds == UNION {{m, 67 - m} : m \in 1..MaxHashSeed}

\* a node hashes by its name, a link by its first outgoing atom
RECURSIVE HandleHash(_)
HandleHash(h) ==
    IF IsNode(h) /\ h.name \in DOMAIN NameIndex
        THEN (NameIndex[h.name] * hashSeed) % 67
    ELSE IF IsLink(h) /\ Len(h.out) > 0
        THEN HandleHash(h.out[1])
    ELSE 0

HandleLess(a, b) == HandleHash(a) < HandleHash(b)

\* the elements of a set of handles as a sequence in handle order
RECURSIVE InHandleOrder(_)
InHandleOrder(S) ==
    IF S = {} THEN <<>>
    ELSE LET first == CHOOSE x \in S : \A y \in S : ~HandleLess(y, x)
         IN  <<first>> \o InHandleOrder(S \ {first})

(***************************************************************************)
(* The TaskManager and the AtomSpace as one value, so that a method and    *)
(* the methods it calls compose.  result is the value the last method      *)
(* returned.                                                               *)
(***************************************************************************)
State ==
    [atoms |-> atoms, tv |-> tv, task_queue |-> task_queue,
     task_status |-> task_status, task_priorities |-> task_priorities,
     task_dependencies |-> task_dependencies, current_task |-> current_task,
     current_goal |-> current_goal,
     enable_goal_decomposition |-> enable_goal_decomposition,
     enable_priority_scheduling |-> enable_priority_scheduling,
     concept_registry |-> concept_registry,
     enable_concept_formation |-> enable_concept_formation,
     result |-> UNDEFINED]

Return(s, value) == [s EXCEPT !.result = value]

\* AtomSpace::add_node, AtomSpace::add_link, Atom::setTruthValue
add_node(s, type, name) == [s EXCEPT !.atoms = @ \cup {Node(type, name)}]

add_link(s, type, out) == [s EXCEPT !.atoms = @ \cup {Link(type, out)}]

setTruthValue(s, h, strength, confidence) ==
    [s EXCEPT !.tv = MapPut(@, h, <<strength, confidence>>)]

\* the contexts initializeTaskManagement creates
task_context == Node("ConceptNode", AgentName \o "_TaskContext")

goal_context == Node("ConceptNode", AgentName \o "_GoalContext")

execution_context == Node("ConceptNode", AgentName \o "_ExecutionContext")

goal_hierarchy_root == Node("ConceptNode", AgentName \o "_GoalHierarchy")

TaskAtom(task_description) == Node("ConceptNode", "Task_" \o task_description)

GoalAtom(goal_description) == Node("ConceptNode", "Goal_" \o goal_description)

createTaskAtom(s, task_description, priority) ==
    LET task_atom == TaskAtom(task_description)
        s1 == add_node(s, "ConceptNode", "Task_" \o task_description)
    IN  Return(setTruthValue(s1, task_atom, (priority * 1000) \div 20, 900), task_atom)

createGoalAtom(s, goal_description) ==
    LET goal_atom == GoalAtom(goal_description)
        s1 == add_node(s, "ConceptNode", "Goal_" \o goal_description)
    IN  Return(setTruthValue(s1, goal_atom, 0, 900), goal_atom)

createTask(s, task_description, priority, goal_atom) ==
    LET s1 == createTaskAtom(s, task_description, priority)
        task_atom == s1.result
        s2 == IF goal_atom # UNDEFINED
                  THEN add_link(s1, "EvaluationLink", <<task_atom, goal_atom>>)
                  ELSE s1
    IN  Return([s2 EXCEPT !.task_queue = Append(@, task_atom),
                          !.task_status = MapPut(@, task_atom, PENDING),
                          !.task_priorities = MapPut(@, task_atom, priority)],
               task_atom)

Dependencies(s, task_atom) ==
    IF task_atom \in DOMAIN s.task_dependencies
        THEN s.task_dependencies[task_atom]
        ELSE <<>>

\* the edge is recorded the wrong way round
addTaskDependency_Reversed(s, task_atom, dependency_atom) ==
    LET s1 == [s EXCEPT !.task_dependencies =
                   MapPut(@, dependency_atom,
                          Append(Dependencies(s, dependency_atom), task_atom))]
    IN  Return(add_link(s1, "SequentialAndLink", <<task_atom, dependency_atom>>), TRUE)

addTaskDependency(s, task_atom, dependency_atom) ==
    LET s1 == [s EXCEPT !.task_dependencies =
                   MapPut(@, task_atom, Append(Dependencies(s, task_atom), dependency_atom))]
    IN  Return(add_link(s1, "SequentialAndLink", <<task_atom, dependency_atom>>), TRUE)

getTaskStatus(s, task_atom) ==
    IF task_atom \in DOMAIN s.task_status THEN s.task_status[task_atom] ELSE PENDING

\* a dependency counts as satisfied as soon as it is no longer Pending
checkTaskDependencies_AnyFinished(s, task_atom) ==
    \/ task_atom \notin DOMAIN s.task_dependencies
    \/ \A i \in 1..Len(s.task_dependencies[task_atom]) :
           getTaskStatus(s, s.task_dependencies[task_atom][i]) # PENDING

checkTaskDependencies(s, task_atom) ==
    \/ task_atom \notin DOMAIN s.task_dependencies
    \/ \A i \in 1..Len(s.task_dependencies[task_atom]) :
           getTaskStatus(s, s.task_dependencies[task_atom][i]) = COMPLETED

\* the entries of _task_status are visited in key order; those that pass are kept
getReadyTasks(s) ==
    InHandleOrder({task_atom \in DOMAIN s.task_status :
                      /\ s.task_status[task_atom] = PENDING
                      /\ checkTaskDependencies(s, task_atom)})

\* the loop of getNextTask over ready_tasks[i..]
RECURSIVE HighestPriority(_, _, _, _)
HighestPriority(s, ready_tasks, i, best_task) ==
    IF i > Len(ready_tasks) THEN best_task
    ELSE IF s.task_priorities[ready_tasks[i]] > s.task_priorities[best_task]
        THEN HighestPriority(s, ready_tasks, i + 1, ready_tasks[i])
    ELSE HighestPriority(s, ready_tasks, i + 1, best_task)

\* the priorities are not looked at
getNextTask_FirstReady(s) ==
    LET ready_tasks == getReadyTasks(s)
    IN  IF ready_tasks = <<>> THEN UNDEFINED ELSE ready_tasks[1]

getNextTask(s) ==
    LET ready_tasks == getReadyTasks(s)
    IN  IF ready_tasks = <<>> THEN UNDEFINED
        ELSE IF ~s.enable_priority_scheduling THEN ready_tasks[1]
        ELSE HighestPriority(s, ready_tasks, 1, ready_tasks[1])

StatusStrength(status) ==
    CASE status = PENDING -> 200
      [] status = ACTIVE -> 500
      [] status = COMPLETED -> 1000
      [] status = FAILED -> 0
      [] status = CANCELLED -> 100
      [] status = SUSPENDED -> 300

updateTaskStatus(s, task_atom, status) ==
    LET s1 == [s EXCEPT !.task_status = MapPut(@, task_atom, status)]
    IN  setTruthValue(s1, task_atom, StatusStrength(status), 900)

\* the two outcomes are swapped
completeTask_Swapped(s, task_atom, success) ==
    LET new_status == IF success THEN FAILED ELSE COMPLETED
        s1 == updateTaskStatus(s, task_atom, new_status)
        s2 == IF task_atom = s1.current_task
                  THEN [s1 EXCEPT !.current_task = UNDEFINED]
                  ELSE s1
    IN  Return(s2, TRUE)

completeTask(s, task_atom, success) ==
    LET new_status == IF success THEN COMPLETED ELSE FAILED
        s1 == updateTaskStatus(s, task_atom, new_status)
        s2 == IF task_atom = s1.current_task
                  THEN [s1 EXCEPT !.current_task = UNDEFINED]
                  ELSE s1
    IN  Return(s2, TRUE)

cancelTask(s, task_atom) ==
    LET s1 == updateTaskStatus(s, task_atom, CANCELLED)
        s2 == IF task_atom = s1.current_task
                  THEN [s1 EXCEPT !.current_task = UNDEFINED]
                  ELSE s1
    IN  Return(s2, TRUE)

\* the first half of processTaskManagement: take the next task when none is current
StartNextTask(s) ==
    IF s.current_task = UNDEFINED
        THEN LET s1 == [s EXCEPT !.current_task = getNextTask(s)]
             IN  IF s1.current_task # UNDEFINED
                     THEN updateTaskStatus(s1, s1.current_task, ACTIVE)
                     ELSE s1
        ELSE s

\* the task taken is started and left Active and current
processTaskManagement_StartOnly(s) == Return(StartNextTask(s), TRUE)

processTaskManagement(s) ==
    LET s1 == StartNextTask(s)
        s2 == IF s1.current_task # UNDEFINED
                  THEN completeTask(s1, s1.current_task, TRUE)
                  ELSE s1
    IN  Return(s2, TRUE)

(***************************************************************************)
(* Goals.                                                                  *)
(***************************************************************************)
\* get_atoms_by_type(EVALUATION_LINK) filtered by the test of findTaskForGoal
EvaluationLinksTo(s, goal_atom) ==
    {l \in s.atoms : /\ IsLink(l)
                 /\ l.type = "EvaluationLink"
                     /\ Len(l.out) = 2
                     /\ l.out[2] = goal_atom}

findTaskForGoal(s, goal_atom) ==
    IF goal_atom = UNDEFINED THEN UNDEFINED
    ELSE IF EvaluationLinksTo(s, goal_atom) # {}
        THEN InHandleOrder(EvaluationLinksTo(s, goal_atom))[1].out[1]
    ELSE IF /\ StartsWith(goal_atom.name, "Goal_")
            /\ Node("ConceptNode",
                    "Task_" \o SubSeq(goal_atom.name, 6, Len(goal_atom.name))) \in s.atoms
        THEN Node("ConceptNode", "Task_" \o SubSeq(goal_atom.name, 6, Len(goal_atom.name)))
    ELSE UNDEFINED

addSubgoal(s, parent_goal, subgoal_description) ==
    IF parent_goal = UNDEFINED THEN Return(s, UNDEFINED)
    ELSE IF subgoal_description = "" THEN Return(s, UNDEFINED)
    ELSE
        LET s1 == createGoalAtom(s, subgoal_description)
            subgoal == s1.result
            s2 == add_link(s1, "InheritanceLink", <<parent_goal, subgoal>>)
            subgoal_pred == Node("PredicateNode", "subgoal_of")
            s3 == add_node(s2, "PredicateNode", "subgoal_of")
            subgoal_eval == Link("EvaluationLink", <<subgoal_pred, subgoal, parent_goal>>)
            s4 == add_link(s3, "EvaluationLink", <<subgoal_pred, subgoal, parent_goal>>)
            s5 == setTruthValue(s4, subgoal_eval, 1000, 900)
            s6 == add_link(s5, "MemberLink", <<subgoal, goal_context>>)
            s7 == setTruthValue(s6, subgoal, 0, 800)
        IN  Return(s7, subgoal)

\* the loop of decomposeGoal from step i on; subgoal_atoms are the subgoals so far
RECURSIVE DecomposeSteps(_, _, _, _, _)
DecomposeSteps(s, goal_atom, subgoals, i, subgoal_atoms) ==
    IF i > Len(subgoals) THEN s
    ELSE
        LET s1 == addSubgoal(s, goal_atom, subgoals[i])
            subgoal == s1.result
            atoms1 == Append(subgoal_atoms, subgoal)
            task_priority == IF i = 1 THEN HIGH ELSE MEDIUM
            s2 == createTask(s1, "Task_" \o subgoals[i], task_priority, subgoal)
            task == s2.result
            prev_task_atom == IF i > 1 THEN findTaskForGoal(s2, atoms1[i - 1]) ELSE UNDEFINED
            s3 == IF i > 1 /\ prev_task_atom # UNDEFINED
                      THEN addTaskDependency(s2, task, prev_task_atom)
                      ELSE s2
        IN  DecomposeSteps(s3, goal_atom, subgoals, i + 1, atoms1)

decomposeGoal(s, goal_atom) ==
    IF goal_atom = UNDEFINED THEN Return(s, FALSE)
    ELSE
        LET s1 == add_link(s, "ListLink", <<goal_hierarchy_root, goal_atom>>)
            subgoals == SubgoalTemplate(goal_atom.name)
            s2 == DecomposeSteps(s1, goal_atom, subgoals, 1, <<>>)
            decomposed_pred == Node("PredicateNode", "decomposed")
            s3 == add_node(s2, "PredicateNode", "decomposed")
            s4 == add_link(s3, "EvaluationLink", <<decomposed_pred, goal_atom>>)
            s5 == setTruthValue(s4, Link("EvaluationLink", <<decomposed_pred, goal_atom>>),
                                1000, 900)
        IN  Return(s5, TRUE)

\* setGoal.  The goal_created timestamp it also records (a NumberNode named by
\* the wall clock, in a three-place EvaluationLink) is left out: nothing reads it.
\* setGoal replaces the current goal without marking it suspended
setDescribedGoal_NoSuspension(s, goal_description, auto_decompose) ==
        LET s1 == createGoalAtom(s, goal_description)
            goal_atom == s1.result
            s3 == [s1 EXCEPT !.current_goal = goal_atom]
            active_pred == Node("PredicateNode", "active_goal")
            s4 == add_link(add_node(s3, "PredicateNode", "active_goal"),
                           "EvaluationLink", <<active_pred, goal_atom>>)
            s5 == setTruthValue(s4, Link("EvaluationLink", <<active_pred, goal_atom>>),
                                1000, 950)
            s6 == add_link(s5, "MemberLink", <<goal_atom, goal_context>>)
            s7 == IF auto_decompose /\ s6.enable_goal_decomposition
                      THEN decomposeGoal(s6, goal_atom)
                      ELSE createTask(s6, "Primary_" \o goal_description, HIGH, goal_atom)
        IN  Return(s7, goal_atom)

\* setGoal past its test of the description
setDescribedGoal(s, goal_description, auto_decompose) ==
        LET s1 == createGoalAtom(s, goal_description)
            goal_atom == s1.result
            suspended_pred == Node("PredicateNode", "suspended")
            s2 == IF s1.current_goal # UNDEFINED
                      THEN setTruthValue(
                               add_link(add_node(s1, "PredicateNode", "suspended"),
                                        "EvaluationLink", <<suspended_pred, s1.current_goal>>),
                               Link("EvaluationLink", <<suspended_pred, s1.current_goal>>),
                               300, 800)
                      ELSE s1
            s3 == [s2 EXCEPT !.current_goal = goal_atom]
            active_pred == Node("PredicateNode", "active_goal")
            s4 == add_link(add_node(s3, "PredicateNode", "active_goal"),
                           "EvaluationLink", <<active_pred, goal_atom>>)
            s5 == setTruthValue(s4, Link("EvaluationLink", <<active_pred, goal_atom>>),
                                1000, 950)
            s6 == add_link(s5, "MemberLink", <<goal_atom, goal_context>>)
            s7 == IF auto_decompose /\ s6.enable_goal_decomposition
                      THEN decomposeGoal(s6, goal_atom)
                      ELSE createTask(s6, "Primary_" \o goal_description, HIGH, goal_atom)
        IN  Return(s7, goal_atom)

\* setGoal without the test of the description: the empty one makes a goal
setGoal_EmptyDescriptionAccepted(s, goal_description, auto_decompose) ==
    setDescribedGoal(s, goal_description, auto_decompose)

setGoal(s, goal_description, auto_decompose) ==
    IF goal_description = "" THEN Return(s, UNDEFINED)
    ELSE setDescribedGoal(s, goal_description, auto_decompose)

\* the second atom of every InheritanceLink the goal occurs in, whichever
\* place the goal has in it
Subgoals_AnyPosition(s, goal_atom) ==
    {l.out[2] : l \in {k \in s.atoms : /\ IsLink(k)
                                       /\ k.type = "InheritanceLink"
                                       /\ Len(k.out) = 2
                                       /\ goal_atom \in {k.out[1], k.out[2]}}}

\* the subgoals calculateGoalAchievement finds: the second atom of every
\* InheritanceLink whose first atom is the goal
Subgoals(s, goal_atom) ==
    {l.out[2] : l \in {k \in s.atoms : /\ IsLink(k)
                                       /\ k.type = "InheritanceLink"
                                       /\ Len(k.out) = 2
                                       /\ k.out[1] = goal_atom}}

\* Atom::getTruthValue: the value set, or the AtomSpace's default (1, 0)
getTruthValue(s, h) == IF h \in DOMAIN s.tv THEN s.tv[h] ELSE <<1000, 0>>

Min(a, b) == IF a < b THEN a ELSE b

\* the sums calculateGoalAchievement accumulates over the achievements of the subgoals
RECURSIVE Sum(_)
Sum(terms) == IF terms = <<>> THEN 0 ELSE Head(terms) + Sum(Tail(terms))

RECURSIVE calculateGoalAchievement(_, _)
\* the achievements of subgoals[i..], each computed by the recursive call
RECURSIVE SubgoalAchievements(_, _, _)
SubgoalAchievements(s, subgoals, i) ==
    IF i > Len(subgoals) THEN <<>>
    ELSE <<calculateGoalAchievement(s, subgoals[i])>>
         \o SubgoalAchievements(s, subgoals, i + 1)

\* the plain average of the strengths, not weighted by confidence
CombineAchievements_Unweighted(achievements) ==
    LET n == Len(achievements)
        total_achievement == Sum([i \in 1..n |-> achievements[i][1]])
        total_confidence == Sum([i \in 1..n |-> achievements[i][2]])
        completed_subgoals ==
            Sum([i \in 1..n |-> IF achievements[i][1] > 800 THEN 1 ELSE 0])
        final_achievement == IF total_confidence > 0 THEN total_achievement \div n ELSE 0
        final_confidence == Min(900, total_confidence \div n)
    IN  IF completed_subgoals = n
            THEN <<Min(1000, final_achievement + 100), Min(950, final_confidence + 50)>>
            ELSE <<final_achievement, final_confidence>>

\* the completion bonus is given when the subgoals are not all completed
CombineAchievements_BonusInverted(achievements) ==
    LET n == Len(achievements)
        total_achievement ==
            Sum([i \in 1..n |-> achievements[i][1] * achievements[i][2]])
        total_confidence == Sum([i \in 1..n |-> achievements[i][2]])
        completed_subgoals ==
            Sum([i \in 1..n |-> IF achievements[i][1] > 800 THEN 1 ELSE 0])
        final_achievement ==
            IF total_confidence > 0 THEN total_achievement \div total_confidence ELSE 0
        final_confidence == Min(900, total_confidence \div n)
    IN  IF completed_subgoals # n
            THEN <<Min(1000, final_achievement + 100), Min(950, final_confidence + 50)>>
            ELSE <<final_achievement, final_confidence>>

\* the completion bonus is added without the cap at 1.0
CombineAchievements_UncappedBonus(achievements) ==
    LET n == Len(achievements)
        total_achievement ==
            Sum([i \in 1..n |-> achievements[i][1] * achievements[i][2]])
        total_confidence == Sum([i \in 1..n |-> achievements[i][2]])
        completed_subgoals ==
            Sum([i \in 1..n |-> IF achievements[i][1] > 800 THEN 1 ELSE 0])
        final_achievement ==
            IF total_confidence > 0 THEN total_achievement \div total_confidence ELSE 0
        final_confidence == Min(900, total_confidence \div n)
    IN  IF completed_subgoals = n
            THEN <<final_achievement + 100, Min(950, final_confidence + 50)>>
            ELSE <<final_achievement, final_confidence>>

\* the result calculateGoalAchievement derives from the achievements of the subgoals
CombineAchievements(achievements) ==
    LET n == Len(achievements)
        total_achievement ==
            Sum([i \in 1..n |-> achievements[i][1] * achievements[i][2]])
        total_confidence == Sum([i \in 1..n |-> achievements[i][2]])
        completed_subgoals ==
            Sum([i \in 1..n |-> IF achievements[i][1] > 800 THEN 1 ELSE 0])
        final_achievement ==
            IF total_confidence > 0 THEN total_achievement \div total_confidence ELSE 0
        final_confidence == Min(900, total_confidence \div n)
    IN  IF completed_subgoals = n
            THEN <<Min(1000, final_achievement + 100), Min(950, final_confidence + 50)>>
            ELSE <<final_achievement, final_confidence>>

calculateGoalAchievement(s, goal_atom) ==
    IF goal_atom = UNDEFINED THEN <<0, 900>>
    ELSE IF Subgoals(s, goal_atom) = {}
        THEN LET task == findTaskForGoal(s, goal_atom)
             IN  IF task # UNDEFINED
                     THEN <<IF getTaskStatus(s, task) = COMPLETED THEN 1000
                            ELSE IF getTaskStatus(s, task) = ACTIVE THEN 500
                            ELSE 0,
                            900>>
                     ELSE getTruthValue(s, goal_atom)
    ELSE CombineAchievements(
             SubgoalAchievements(s, InHandleOrder(Subgoals(s, goal_atom)), 1))

isGoalAchieved(s, goal_atom) == calculateGoalAchievement(s, goal_atom)

(***************************************************************************)
(* The CognitiveLoop after construction: not running, not paused, no       *)
(* thread, no cycle counted, every phase enabled, no call in progress.     *)
(***************************************************************************)
Phases == <<"perception", "planning", "action", "reflection">>

\* the contexts calling the methods of the loop
MaxCallers == 2

Callers == 1..MaxCallers

\* the value of _loop_thread that holds no thread
NoThread == 0

\* a context that is in no method of the loop; result is what its last call
\* returned: "true", "false", "exception", or "none" before the first call
Idle(value) ==
    [op |-> "idle", pc |-> "idle", result |-> value, thread |-> NoThread,
     old |-> NoThread, cycle_success |-> TRUE, executed |-> <<>>]

LoopConstructed ==
    /\ running = FALSE
    /\ paused = FALSE
    /\ loop_thread = NoThread
    /\ cycle_count = 0
    /\ enable_phase = [p \in {Phases[i] : i \in 1..Len(Phases)} |-> TRUE]
    /\ threads = <<>>
    /\ calls = [c \in Callers |-> Idle("none")]
    /\ terminated = FALSE

(***************************************************************************)
(* The state after construction: the four context nodes of                 *)
(* initializeTaskManagement, no task, no goal, both options enabled.       *)
(***************************************************************************)
Init ==
    /\ atoms = {task_context, goal_context, execution_context, goal_hierarchy_root}
    /\ tv = <<>>
    /\ task_queue = <<>>
    /\ task_status = <<>>
    /\ task_priorities = <<>>
    /\ task_dependencies = <<>>
    /\ current_task = UNDEFINED
    /\ current_goal = UNDEFINED
    /\ enable_goal_decomposition = TRUE
    /\ enable_priority_scheduling = TRUE
    /\ hashSeed \in HashSeeds
    /\ call_stack = <<>>
    /\ concept_registry = <<>>
    /\ enable_concept_formation = TRUE
    /\ LoopConstructed

\* the managers and the AtomSpace become s
StoreBecomes(s) ==
    /\ atoms' = s.atoms
    /\ tv' = s.tv
    /\ task_queue' = s.task_queue
    /\ task_status' = s.task_status
    /\ task_priorities' = s.task_priorities
    /\ task_dependencies' = s.task_dependencies
    /\ current_task' = s.current_task
    /\ current_goal' = s.current_goal
    /\ enable_goal_decomposition' = s.enable_goal_decomposition
    /\ enable_priority_scheduling' = s.enable_priority_scheduling
    /\ hashSeed' = hashSeed
    /\ call_stack' = call_stack
    /\ concept_registry' = s.concept_registry
    /\ enable_concept_formation' = s.enable_concept_formation

\* the same from a context that is in no method of the loop
Becomes(s) ==
    /\ StoreBecomes(s)
    /\ UNCHANGED loop_vars

Tasks == DOMAIN task_status

RECURSIVE EntryCount(_, _)
EntryCount(m, keys) ==
    IF keys = {} THEN 0
    ELSE LET k == CHOOSE x \in keys : TRUE
         IN  Len(m[k]) + EntryCount(m, keys \ {k})

DependencyCount == EntryCount(task_dependencies, DOMAIN task_dependencies)

\* the priorities createTask is called with
PriorityInputs == {MEDIUM, HIGH}

CreateTask ==
    \E d \in TaskDescriptions, p \in PriorityInputs :
        /\ Len(task_queue) < MaxQueue
        /\ Becomes(createTask(State, d, p, UNDEFINED))

AddTaskDependency ==
    \E t \in Tasks, d \in Tasks :
        /\ DependencyCount < MaxDeps
        /\ Becomes(addTaskDependency(State, t, d))

CompleteTask ==
    \E t \in Tasks, success \in BOOLEAN :
        Becomes(completeTask(State, t, success))

CancelTask ==
    \E t \in Tasks :
        Becomes(cancelTask(State, t))

ProcessTaskManagement ==
    Becomes(processTaskManagement(State))

SetPrioritySchedulingEnabled ==
    \E enable \in BOOLEAN :
        Becomes([State EXCEPT !.enable_priority_scheduling = enable])

Next ==
    \/ CreateTask
    \/ AddTaskDependency
    \/ CompleteTask
    \/ CancelTask
    \/ ProcessTaskManagement
    \/ SetPrioritySchedulingEnabled

Spec == Init /\ [][Next]_vars

(***************************************************************************)
(* SpecGoal: goals are set (decomposed or with a primary task) and the     *)
(* cognitive loop runs task-management cycles.                             *)
(***************************************************************************)
\* the goals setGoal has returned: each has an active_goal evaluation
TopGoals ==
    {l.out[2] : l \in {k \in atoms : /\ IsLink(k)
                                     /\ k.type = "EvaluationLink"
                                     /\ Len(k.out) = 2
                                     /\ k.out[1] = Node("PredicateNode", "active_goal")}}

SetGoal ==
    \E d \in GoalDescriptions, auto_decompose \in BOOLEAN :
        /\ Cardinality(TopGoals) < MaxGoals
        /\ GoalAtom(d) \notin TopGoals
        /\ Becomes(setGoal(State, d, auto_decompose))

SetGoalDecompositionEnabled ==
    \E enable \in BOOLEAN :
        Becomes([State EXCEPT !.enable_goal_decomposition = enable])

NextGoal ==
    \/ SetGoal
    \/ SetGoalDecompositionEnabled
    \/ ProcessTaskManagement

SpecGoal == Init /\ [][NextGoal]_vars

(***************************************************************************)
(* Properties of task scheduling, checked under Spec.                      *)
(***************************************************************************)
\* the status a dependency is read with: an unknown handle counts as Pending
StatusOf(h) == IF h \in DOMAIN task_status THEN task_status[h] ELSE PENDING

DependenciesOf(t) ==
    IF t \in DOMAIN task_dependencies THEN Range(task_dependencies[t]) ELSE {}

\* ready: Pending, and every dependency Completed
ReadySet ==
    {t \in Tasks : /\ task_status[t] = PENDING
                   /\ \A d \in DependenciesOf(t) : StatusOf(d) = COMPLETED}

\* C1: getNextTask() never returns a task that has a dependency whose status
\* is not Completed.
C1_DependencyGating ==
    \A d \in DependenciesOf(getNextTask(State)) : StatusOf(d) = COMPLETED

\* a Pending task of higher priority is held back by an incomplete dependency
\* while getNextTask() returns the other task
C1_Witness ==
    /\ getNextTask(State) # UNDEFINED
    /\ \E u \in Tasks :
           /\ task_status[u] = PENDING
           /\ \E d \in DependenciesOf(u) : StatusOf(d) # COMPLETED
           /\ task_priorities[u] > task_priorities[getNextTask(State)]

\* C2: with priority scheduling enabled, getNextTask() returns the undefined
\* reference iff no task is ready, and otherwise a ready task whose priority
\* is at least that of every other ready task.
C2_PriorityScheduling ==
    enable_priority_scheduling =>
        /\ (getNextTask(State) = UNDEFINED) <=> (ReadySet = {})
        /\ ReadySet # {} =>
               /\ getNextTask(State) \in ReadySet
               /\ \A u \in ReadySet :
                      task_priorities[getNextTask(State)] >= task_priorities[u]

\* two tasks are ready, and the one that comes first in key order has the
\* lower priority: the other one is returned
C2_Witness ==
    /\ enable_priority_scheduling
    /\ Cardinality(ReadySet) = 2
    /\ getNextTask(State) # getReadyTasks(State)[1]
    /\ \E u \in ReadySet : task_priorities[u] < task_priorities[getNextTask(State)]

\* A and B are the only tasks, B is Pending and depends on A alone
TwoTaskScenario(a, b) ==
    /\ a # b
    /\ Tasks = {a, b}
    /\ task_status[b] = PENDING
    /\ a \notin DOMAIN task_dependencies \/ task_dependencies[a] = <<>>
    /\ b \in DOMAIN task_dependencies
    /\ task_dependencies[b] = <<a>>

\* C3: with two Pending tasks A and B, B depending on A, getNextTask() returns
\* A whatever the priorities; after completeTask(A, true) it returns B.
C3_TwoTaskScenario ==
    [][\A a, b \in Tasks :
           (/\ TwoTaskScenario(a, b)
            /\ task_status[a] = PENDING
            /\ Becomes(completeTask(State, a, TRUE)))
           => (/\ getNextTask(State) = a
               /\ getNextTask(State)' = b)]_vars

\* the scenario after completeTask(A, true), with B of higher priority than A
C3_Witness ==
    \E a, b \in Tasks :
        /\ TwoTaskScenario(a, b)
        /\ task_status[a] = COMPLETED
        /\ task_priorities[b] > task_priorities[a]
        /\ getNextTask(State) = b

\* the transitions of the task status state machine
LegalTransition(from, to) ==
    \/ from = PENDING /\ to = ACTIVE
    \/ from = ACTIVE /\ to \in {COMPLETED, FAILED, SUSPENDED}
    \/ to = CANCELLED

\* every status that changes between two status maps changes by a legal transition
LegalChanges(old, new) ==
    \A t \in DOMAIN old \cap DOMAIN new :
        old[t] # new[t] => LegalTransition(old[t], new[t])

\* C4: every change of a task's status made by completeTask, cancelTask or
\* processCycle follows Pending->Active, Active->Completed, Active->Failed,
\* Active->Suspended or any->Cancelled; in particular a task becomes Completed
\* or Failed only from Active.  processCycle makes two changes, one in each of
\* its halves.
C4_StatusTransitions ==
    [][/\ (CompleteTask \/ CancelTask) => LegalChanges(task_status, task_status')
       /\ ProcessTaskManagement =>
              /\ LegalChanges(task_status, StartNextTask(State).task_status)
              /\ LegalChanges(StartNextTask(State).task_status, task_status')]_vars

TerminalStatus == {COMPLETED, FAILED, CANCELLED}

\* C5: Completed, Failed and Cancelled are terminal: no later completeTask,
\* cancelTask, createTask or processCycle call changes such a status.
C5_TerminalStatus ==
    [][\A t \in Tasks :
           task_status[t] \in TerminalStatus => task_status'[t] = task_status[t]]_vars

\* C6: with no current task, processCycle() takes the task getNextTask() would
\* return from Pending through Active to Completed, changes no other status,
\* leaves no current task and returns true; with nothing ready it changes no
\* status and returns true.
C6_ProcessCycle ==
    [][(ProcessTaskManagement /\ current_task = UNDEFINED) =>
           /\ processTaskManagement(State).result = TRUE
           /\ DOMAIN task_status' = DOMAIN task_status
           /\ current_task' = UNDEFINED
           /\ IF ReadySet = {}
                  THEN task_status' = task_status
                  ELSE /\ task_status[getNextTask(State)] = PENDING
                       /\ StartNextTask(State).task_status[getNextTask(State)] = ACTIVE
                       /\ task_status'[getNextTask(State)] = COMPLETED
                       /\ \A u \in Tasks \ {getNextTask(State)} :
                              task_status'[u] = task_status[u]]_vars

\* a cycle has completed the task of higher priority and left the other, which
\* is ready too, Pending
C6_Witness ==
    /\ current_task = UNDEFINED
    /\ \E t, u \in Tasks :
           /\ task_status[t] = COMPLETED
           /\ tv[t] = <<1000, 900>>
           /\ task_status[u] = PENDING
           /\ u \in ReadySet
           /\ t \notin DependenciesOf(u)
           /\ task_priorities[t] > task_priorities[u]

(***************************************************************************)
(* Properties of goal decomposition and achievement, checked under         *)
(* SpecGoal.                                                               *)
(***************************************************************************)
\* the subgoal and the task decomposeGoal creates for step i of a template
StepGoal(template, i) == GoalAtom(template[i])

StepTask(template, i) == TaskAtom("Task_" \o template[i])

\* the tasks of a template, in template order
ChainTasks(template) == [i \in 1..Len(template) |-> StepTask(template, i)]

\* goal is decomposed into the sequential chain of its template
DecomposedAsChain(goal) ==
    LET template == SubgoalTemplate(goal.name)
        n == Len(template)
    IN  /\ n \in {5, 6}
        /\ template = ProblemSolvingTemplate => n = 6
        /\ Subgoals(State, goal) = {StepGoal(template, i) : i \in 1..n}
        /\ Len(task_queue) >= n
        /\ SubSeq(task_queue, Len(task_queue) - n + 1, Len(task_queue)) = ChainTasks(template)
        /\ \A i \in 1..n :
               /\ StepTask(template, i) \in Tasks
               /\ Link("EvaluationLink", <<StepTask(template, i), StepGoal(template, i)>>)
                      \in atoms
               /\ task_priorities[StepTask(template, i)] = (IF i = 1 THEN HIGH ELSE MEDIUM)
               /\ DependenciesOf(StepTask(template, i)) =
                      (IF i = 1 THEN {} ELSE {StepTask(template, i - 1)})

\* setGoal(d, true) is called with goal decomposition enabled
DecomposingSetGoal(d) ==
    /\ d # ""
    /\ enable_goal_decomposition
    /\ Cardinality(TopGoals) < MaxGoals
    /\ GoalAtom(d) \notin TopGoals
    /\ Becomes(setGoal(State, d, TRUE))

\* C7: decomposing a goal creates the subgoals of the matched template in
\* template order (6 for problem-solving, 5 or 6 otherwise), one task per
\* subgoal, HIGH for the first and MEDIUM for the others; the first task has
\* no dependency and the dependency set of task i is exactly {task i-1}.
C7_DecompositionChain ==
    [][\A d \in GoalDescriptions :
           DecomposingSetGoal(d) => DecomposedAsChain(GoalAtom(d))']_vars

\* the manager holds the tasks of one decomposition and no other:
\* setGoal(d, true) was the only call that created tasks
SingleChain(goal) ==
    /\ current_goal = goal
    /\ task_queue = ChainTasks(SubgoalTemplate(goal.name))

\* the tasks before position k are Completed and the others Pending
CompletedUpTo(chain, k) ==
    \A i \in 1..Len(chain) :
        task_status[chain[i]] = (IF i <= k THEN COMPLETED ELSE PENDING)

Decomposed(goal) ==
    Link("EvaluationLink", <<Node("PredicateNode", "decomposed"), goal>>) \in atoms

\* C9: a goal decomposed by setGoal(d, true) has achievement strength 0.0
\* immediately after the decomposition and 1.0 once every task of its chain
\* is Completed.  The first half is read in the state setGoal(d, true)
\* produces from the current one.
C9_DecomposedAchievement ==
    /\ \A d \in GoalDescriptions :
           (/\ d # ""
            /\ enable_goal_decomposition
            /\ Cardinality(TopGoals) < MaxGoals
            /\ GoalAtom(d) \notin TopGoals)
           => isGoalAchieved(setGoal(State, d, TRUE), GoalAtom(d))[1] = 0
    /\ \A g \in TopGoals :
           (/\ Decomposed(g)
            /\ \A t \in Range(ChainTasks(SubgoalTemplate(g.name))) :
                   StatusOf(t) = COMPLETED)
           => isGoalAchieved(State, g)[1] = 1000

\* the tasks createTask has associated with a goal
AssociatedTasks(goal) ==
    {t \in Tasks : Link("EvaluationLink", <<t, goal>>) \in atoms}

\* C10: for a goal without subgoals that has an associated task,
\* isGoalAchieved() has strength 1.0 if the task is Completed, 0.5 if it is
\* Active and 0.0 otherwise; so after setGoal(d, false) and the completion of
\* the primary task the strength is 1.0.
C10_LeafGoalAchievement ==
    \A g \in TopGoals :
        (Subgoals(State, g) = {} /\ Cardinality(AssociatedTasks(g)) = 1) =>
            \A t \in AssociatedTasks(g) :
                isGoalAchieved(State, g)[1] =
                    (IF task_status[t] = COMPLETED THEN 1000
                     ELSE IF task_status[t] = ACTIVE THEN 500
                     ELSE 0)

(***************************************************************************)
(* SpecAchievement: goals set without decomposition get their subgoals     *)
(* through addSubgoal, and the belief values of the goal atoms are written *)
(* through the AtomSpace the manager shares with the other components.     *)
(* The hierarchy stays acyclic: calculateGoalAchievement is evaluated in   *)
(* every state.                                                            *)
(***************************************************************************)
\* the goal atoms of the AtomSpace: the nodes createGoalAtom names
GoalAtoms(s) ==
    {h \in s.atoms : /\ IsNode(h)
                     /\ h.type = "ConceptNode"
                     /\ StartsWith(h.name, "Goal_")}

\* the hierarchy edges calculateGoalAchievement follows
HierarchyEdges(s) ==
    {k \in s.atoms : /\ IsLink(k)
                     /\ k.type = "InheritanceLink"
                     /\ Len(k.out) = 2}

\* the children of a goal: the ends of the hierarchy edges that start at it
Children(s, goal_atom) ==
    {l.out[2] : l \in {k \in HierarchyEdges(s) : k.out[1] = goal_atom}}

\* the goals below a goal in the hierarchy
RECURSIVE Reachable(_, _, _)
Reachable(s, frontier, seen) ==
    LET next == (UNION {Children(s, h) : h \in frontier}) \ seen
    IN  IF next = {} THEN seen ELSE Reachable(s, next, seen \cup next)

Descendants(s, goal_atom) == Reachable(s, {goal_atom}, {})

Acyclic(s) == \A g \in GoalAtoms(s) : g \notin Descendants(s, g)

\* strengths and confidences in thousandths
Strengths == {0, 500, 800, 900, 1000}

BeliefValues == {<<0, 0>>, <<800, 500>>, <<1000, 900>>}

\* setGoal on its branch without decomposition
SetPrimaryGoal ==
    \E d \in RootDescriptions, auto_decompose \in BOOLEAN :
        /\ Len(task_queue) < MaxGoals
        /\ ~(auto_decompose /\ enable_goal_decomposition)
        /\ Becomes(setGoal(State, d, auto_decompose))

AddSubgoal ==
    \E parent \in GoalAtoms(State) \cup {UNDEFINED}, d \in SubgoalDescriptions :
        /\ Cardinality(HierarchyEdges(addSubgoal(State, parent, d))) <= MaxSubgoals
        /\ Acyclic(addSubgoal(State, parent, d))
        /\ Becomes(addSubgoal(State, parent, d))

\* a component sharing the AtomSpace writes the belief value of a goal atom
SetBeliefValue ==
    \E h \in GoalAtoms(State), b \in BeliefValues :
        Becomes(setTruthValue(State, h, b[1], b[2]))

NextAchievement ==
    \/ SetPrimaryGoal
    \/ SetGoalDecompositionEnabled
    \/ AddSubgoal
    \/ SetBeliefValue
    \/ ProcessTaskManagement

SpecAchievement == Init /\ [][NextAchievement]_vars

(***************************************************************************)
(* Properties of the achievement calculation, checked under                *)
(* SpecAchievement.                                                        *)
(***************************************************************************)
RECURSIVE SetSum(_, _)
SetSum(f, S) ==
    IF S = {} THEN 0
    ELSE LET x == CHOOSE y \in S : TRUE
         IN  f[x] + SetSum(f, S \ {x})

\* the achievements of the subgoals of a goal
SubgoalAchievementOf(s, goal) == [h \in Subgoals(s, goal) |-> isGoalAchieved(s, h)]

\* the achievement the claim gives for subgoal achievements A = (s_i, c_i)
WeightedAchievement(A) ==
    LET n == Cardinality(DOMAIN A)
        sum_c == SetSum([h \in DOMAIN A |-> A[h][2]], DOMAIN A)
        sum_sc == SetSum([h \in DOMAIN A |-> A[h][1] * A[h][2]], DOMAIN A)
        strength == IF sum_c = 0 THEN 0 ELSE sum_sc \div sum_c
        confidence == Min(900, sum_c \div n)
    IN  IF \A h \in DOMAIN A : A[h][1] > 800
            THEN <<Min(1000, strength + 100), Min(950, confidence + 50)>>
            ELSE <<strength, confidence>>

\* C11: for a goal with n >= 1 subgoals of achievements (s_i, c_i),
\* isGoalAchieved returns strength sum(s_i c_i) / sum(c_i) (0 if sum(c_i) = 0)
\* and confidence min(0.9, sum(c_i) / n); when every s_i exceeds 0.8 the
\* strength is raised by 0.1 up to 1.0 and the confidence by 0.05 up to 0.95.
C11_WeightedAchievement ==
    \A g \in GoalAtoms(State) :
        Subgoals(State, g) # {} =>
            isGoalAchieved(State, g) = WeightedAchievement(SubgoalAchievementOf(State, g))

\* a goal has subgoals of different strengths and different confidences, so
\* that the weights matter
C11_Witness ==
    \E g \in GoalAtoms(State) :
        \E h, k \in Subgoals(State, g) :
            /\ isGoalAchieved(State, h)[1] > isGoalAchieved(State, k)[1]
            /\ isGoalAchieved(State, h)[2] > isGoalAchieved(State, k)[2]
            /\ isGoalAchieved(State, k)[2] > 0
            /\ isGoalAchieved(State, g)[1] > 0

\* the subgoals whose achievement is their own belief value
LeafSubgoals(s, goal) ==
    {h \in Subgoals(s, goal) : /\ Subgoals(s, h) = {}
                               /\ findTaskForGoal(s, h) = UNDEFINED}

\* the state in which the strength of leaf subgoal h is strength, the
\* confidence as before
WithStrength(s, h, strength) == setTruthValue(s, h, strength, getTruthValue(s, h)[2])

\* C12: with the set of subgoals and their confidences fixed, raising the
\* achievement strength of a subgoal never lowers the strength
\* isGoalAchieved returns for the goal.
C12_Monotonic ==
    \A g \in GoalAtoms(State) :
        \A h \in LeafSubgoals(State, g), strength \in Strengths :
            (/\ strength >= getTruthValue(State, h)[1]
             /\ \A k \in Subgoals(State, g) :
                    isGoalAchieved(WithStrength(State, h, strength), k)[2]
                        = isGoalAchieved(State, k)[2])
            => isGoalAchieved(WithStrength(State, h, strength), g)[1]
                   >= isGoalAchieved(State, g)[1]

\* raising one subgoal from 0.8 to above it completes the set and earns the
\* goal the completion bonus
C12_Witness ==
    \E g \in GoalAtoms(State) :
        \E h \in LeafSubgoals(State, g) :
            /\ Cardinality(Subgoals(State, g)) >= 2
            /\ getTruthValue(State, h)[1] = 800
            /\ isGoalAchieved(State, g)[1] < 1000
            /\ isGoalAchieved(WithStrength(State, h, 900), g)[1] = 1000

(***************************************************************************)
(* The KnowledgeIntegrator's revision of belief values.  It works on the   *)
(* same AtomSpace; its functions take and return a record with the fields  *)
(* atoms and tv.                                                           *)
(***************************************************************************)
\* enum class ConfidenceLevel
VERY_LOW == 0
CONFIDENCE_LOW == 25
CONFIDENCE_MEDIUM == 50
CONFIDENCE_HIGH == 75
VERY_HIGH == 100

ConfidenceLevel == {VERY_LOW, CONFIDENCE_LOW, CONFIDENCE_MEDIUM, CONFIDENCE_HIGH, VERY_HIGH}

\* Atom::getIncomingSet
getIncomingSet(s, h) == {l \in s.atoms : IsLink(l) /\ h \in Range(l.out)}

\* every handle of supporting_evidence counts, the undefined ones too
ValidEvidence_CountsUndefined(supporting_evidence) == supporting_evidence

\* the defined handles of supporting_evidence
ValidEvidence(supporting_evidence) ==
    SelectSeq(supporting_evidence, LAMBDA e : e # UNDEFINED)

\* the mean of strength * confidence over the valid evidence
EvidenceStrength(s, supporting_evidence) ==
    LET valid == ValidEvidence(supporting_evidence)
    IN  Sum([i \in 1..Len(valid) |->
                 getTruthValue(s, valid[i])[1] * getTruthValue(s, valid[i])[2]])
            \div (1000 * Len(valid))

\* the ConfidenceLevel of a confidence, by its percentage cut to an integer
ConfidenceLevelOf(confidence) ==
    LET confidence_percent == confidence \div 10
    IN  IF confidence_percent >= 90 THEN VERY_HIGH
        ELSE IF confidence_percent >= 70 THEN CONFIDENCE_HIGH
        ELSE IF confidence_percent >= 40 THEN CONFIDENCE_MEDIUM
        ELSE IF confidence_percent >= 20 THEN CONFIDENCE_LOW
        ELSE VERY_LOW

\* the belief value updateKnowledgeConfidence writes when there is valid evidence
RevisedBelief(s, knowledge_atom, supporting_evidence) ==
    LET current_tv == getTruthValue(s, knowledge_atom)
        evidence_strength == EvidenceStrength(s, supporting_evidence)
    IN  <<(current_tv[1] + evidence_strength) \div 2,
          Min(1000, current_tv[2] + evidence_strength \div 10)>>

updateKnowledgeConfidence(s, knowledge_atom, supporting_evidence) ==
    IF knowledge_atom = UNDEFINED THEN Return(s, VERY_LOW)
    ELSE IF Len(ValidEvidence(supporting_evidence)) > 0
        THEN LET new_tv == RevisedBelief(s, knowledge_atom, supporting_evidence)
             IN  Return(setTruthValue(s, knowledge_atom, new_tv[1], new_tv[2]),
                        ConfidenceLevelOf(new_tv[2]))
    ELSE Return(s, CONFIDENCE_MEDIUM)

assessKnowledgeReliability(s, knowledge_atom) ==
    IF knowledge_atom = UNDEFINED THEN <<0, 0>>
    ELSE
        LET current_tv == getTruthValue(s, knowledge_atom)
            connectivity_factor ==
                Min(1000, Cardinality(getIncomingSet(s, knowledge_atom)) * 100)
        IN  <<(current_tv[1] + connectivity_factor) \div 2,
              Min(1000, current_tv[2] + connectivity_factor \div 5)>>

(***************************************************************************)
(* SpecBelief: SpecAchievement, and the KnowledgeIntegrator revises the    *)
(* belief value of a goal from the tasks as evidence.                      *)
(***************************************************************************)
\* evidence lists of at most this length are passed to updateKnowledgeConfidence
MaxEvidence == 2

\* the evidence lists over a set of handles
EvidenceLists(handles) ==
    UNION {[1..n -> handles \cup {UNDEFINED}] : n \in 0..MaxEvidence}

\* the belief values createGoalAtom and addSubgoal give a goal
CreatedBeliefValues == {<<0, 900>>, <<0, 800>>}

\* a goal that has not been revised is revised on the evidence of tasks
UpdateKnowledgeConfidence ==
    \E k \in GoalAtoms(State), evidence \in EvidenceLists(Tasks) :
        /\ getTruthValue(State, k) \in CreatedBeliefValues
        /\ Becomes(updateKnowledgeConfidence(State, k, evidence))

NextBelief ==
    \/ NextAchievement
    \/ UpdateKnowledgeConfidence

SpecBelief == Init /\ [][NextBelief]_vars

\* strength and confidence are within [0, 1]
InUnitInterval(belief) ==
    /\ 0 <= belief[1] /\ belief[1] <= 1000
    /\ 0 <= belief[2] /\ belief[2] <= 1000

\* the handles updateKnowledgeConfidence and assessKnowledgeReliability are tried on
KnowledgeHandles == GoalAtoms(State) \cup Tasks \cup {UNDEFINED}

\* C13: every belief value produced by isGoalAchieved, by a task status
\* update, by updateKnowledgeConfidence and by assessKnowledgeReliability
\* has strength and confidence within [0, 1], the belief values of the atoms
\* being within [0, 1].
C13_BeliefRange ==
    /\ \A h \in DOMAIN tv : InUnitInterval(tv[h])
    /\ \A g \in GoalAtoms(State) \cup {UNDEFINED} : InUnitInterval(isGoalAchieved(State, g))
    /\ \A t \in Tasks, status \in TaskStatus :
           InUnitInterval(getTruthValue(updateTaskStatus(State, t, status), t))
    /\ \A k \in KnowledgeHandles \ {UNDEFINED}, evidence \in EvidenceLists(KnowledgeHandles) :
           InUnitInterval(
               getTruthValue(updateKnowledgeConfidence(State, k, evidence), k))
    /\ \A k \in KnowledgeHandles : InUnitInterval(assessKnowledgeReliability(State, k))

\* a goal has been revised by updateKnowledgeConfidence, a task completed by a
\* status update, and a goal has the achievement 1.0 that the cap on the
\* completion bonus leaves
C13_Witness ==
    /\ \E g \in GoalAtoms(State) :
           /\ Subgoals(State, g) # {}
           /\ \A h \in Subgoals(State, g) : isGoalAchieved(State, h)[1] = 1000
           /\ isGoalAchieved(State, g) = <<1000, 950>>
    /\ \E k \in GoalAtoms(State) :
           /\ getTruthValue(State, k) \notin CreatedBeliefValues \cup BeliefValues
           /\ assessKnowledgeReliability(State, k)[2] = 1000
    /\ \E t \in Tasks : task_status[t] = COMPLETED /\ tv[t] = <<1000, 900>>

(***************************************************************************)
(* SpecTermination: a call of isGoalAchieved as the steps of its           *)
(* recursion.  call_stack holds one frame per pending call of              *)
(* calculateGoalAchievement: the goal, the subgoals it found, and the      *)
(* index of the subgoal its loop calls next.  addSubgoal is called with    *)
(* any parent, so the hierarchy may have cycles.  A call that is running   *)
(* keeps running: the step is weakly fair.                                 *)
(***************************************************************************)
\* the stack holds at most this many calls; one more overflows it and the
\* call never returns
MaxCallDepth == 4

Frame(s, goal_atom) ==
    [goal |-> goal_atom, subgoals |-> InHandleOrder(Subgoals(s, goal_atom)), next |-> 1]

\* isGoalAchieved is called: the first call of calculateGoalAchievement
CallIsGoalAchieved ==
    \E g \in GoalAtoms(State) :
        /\ call_stack = <<>>
        /\ call_stack' = <<Frame(State, g)>>
        /\ UNCHANGED <<atoms, tv, task_queue, task_status, task_priorities,
                       task_dependencies, current_task, current_goal,
                       enable_goal_decomposition, enable_priority_scheduling,
                       hashSeed, concept_registry, enable_concept_formation, loop_vars>>

\* the innermost call goes on: its loop calls calculateGoalAchievement on
\* the next subgoal, or it has no subgoal left and returns
CalculateStep ==
    /\ call_stack # <<>>
    /\ LET depth == Len(call_stack)
           top == call_stack[depth]
       IN  IF top.next <= Len(top.subgoals)
               THEN /\ depth < MaxCallDepth
                    /\ call_stack' =
                           Append([call_stack EXCEPT ![depth].next = @ + 1],
                                  Frame(State, top.subgoals[top.next]))
               ELSE call_stack' = SubSeq(call_stack, 1, depth - 1)
    /\ UNCHANGED <<atoms, tv, task_queue, task_status, task_priorities,
                   task_dependencies, current_task, current_goal,
                   enable_goal_decomposition, enable_priority_scheduling,
                   hashSeed, concept_registry, enable_concept_formation, loop_vars>>

SetPrimaryGoalBetweenCalls ==
    /\ call_stack = <<>>
    /\ SetPrimaryGoal

\* addSubgoal with any goal as the parent and any goal description
AddAnySubgoal ==
    \E parent \in GoalAtoms(State), d \in SubgoalDescriptions \cup RootDescriptions :
        /\ call_stack = <<>>
        /\ Cardinality(HierarchyEdges(addSubgoal(State, parent, d))) <= MaxSubgoals
        /\ Becomes(addSubgoal(State, parent, d))

NextTermination ==
    \/ SetPrimaryGoalBetweenCalls
    \/ AddAnySubgoal
    \/ CallIsGoalAchieved
    \/ CalculateStep

SpecTermination == Init /\ [][NextTermination]_vars /\ WF_vars(CalculateStep)

\* C14: on a finite hierarchy without a cycle, a call of isGoalAchieved
\* returns: every pending call of calculateGoalAchievement is popped.
C14_Terminates == (call_stack # <<>> /\ Acyclic(State)) ~> (call_stack = <<>>)

\* the recursion is three calls deep in a hierarchy without a cycle, and the
\* innermost call is about to return
C14_Witness ==
    /\ Acyclic(State)
    /\ Len(call_stack) = 3
    /\ call_stack[3].next > Len(call_stack[3].subgoals)
    /\ call_stack[1].goal = GoalAtom("tidy")

(***************************************************************************)
(* Properties of setGoal and addSubgoal, checked under SpecAchievement.    *)
(***************************************************************************)
\* s differs from the present state in no field a refused call must leave alone
NothingChanged(s) ==
    /\ s.current_goal = current_goal
    /\ s.task_status = task_status
    /\ s.task_priorities = task_priorities
    /\ s.task_dependencies = task_dependencies
    /\ s.task_queue = task_queue
    /\ s.current_task = current_task
    /\ s.atoms = atoms
    /\ s.tv = tv

\* C15: setGoal with an empty description, and addSubgoal with an undefined
\* parent or an empty description, return the undefined reference and leave
\* the current goal, the status, priority and dependency maps and the queue
\* (and the AtomSpace) as they were.
C15_RefusedCallsChangeNothing ==
    /\ \A auto_decompose \in BOOLEAN :
           /\ setGoal(State, "", auto_decompose).result = UNDEFINED
           /\ NothingChanged(setGoal(State, "", auto_decompose))
    /\ \A d \in SubgoalDescriptions :
           /\ addSubgoal(State, UNDEFINED, d).result = UNDEFINED
           /\ NothingChanged(addSubgoal(State, UNDEFINED, d))
    /\ \A parent \in GoalAtoms(State) \cup {UNDEFINED} :
           /\ addSubgoal(State, parent, "").result = UNDEFINED
           /\ NothingChanged(addSubgoal(State, parent, ""))

\* the calls are refused in a state with a current goal, a hierarchy and a
\* queued task, where an accepted call would show
C15_Witness ==
    /\ current_goal # UNDEFINED
    /\ task_queue # <<>>
    /\ Tasks # {}
    /\ HierarchyEdges(State) # {}
    /\ setGoal(State, "", FALSE).result = UNDEFINED
    /\ addSubgoal(State, current_goal, "").result = UNDEFINED
    /\ addSubgoal(State, current_goal, "mop").result = GoalAtom("mop")

(***************************************************************************)
(* Properties of the current goal, checked under SpecGoal, where every     *)
(* successful setGoal makes a goal that has no active_goal evaluation yet. *)
(***************************************************************************)
\* the mark setGoal leaves on the goal it replaces
SuspendedMark(goal_atom) ==
    Link("EvaluationLink", <<Node("PredicateNode", "suspended"), goal_atom>>)

\* C16: the current goal is undefined or the goal the most recent successful
\* setGoal returned: a step in which setGoal succeeds makes its goal the
\* current one, every other step leaves the current goal alone.  A goal that
\* is replaced is marked suspended, and no atom (the goal, its subgoals, its
\* tasks) and no entry of the task maps is deleted.
C16_CurrentGoal ==
    [][/\ current_goal' = UNDEFINED \/ current_goal' \in TopGoals'
       /\ TopGoals' = TopGoals => current_goal' = current_goal
       /\ TopGoals' # TopGoals =>
              /\ TopGoals' \ TopGoals = {current_goal'}
              /\ current_goal # UNDEFINED =>
                     /\ SuspendedMark(current_goal) \in atoms'
                     /\ SuspendedMark(current_goal) \in DOMAIN tv'
                     /\ tv'[SuspendedMark(current_goal)] = <<300, 800>>
              /\ atoms \subseteq atoms'
              /\ DOMAIN task_status \subseteq DOMAIN task_status'
              /\ DOMAIN task_priorities \subseteq DOMAIN task_priorities'
              /\ DOMAIN task_dependencies \subseteq DOMAIN task_dependencies']_vars

\* a decomposed goal has been replaced: it is marked suspended, it still has
\* its subgoals, and their tasks are still in the status map
C16_Witness ==
    \E g1 \in TopGoals :
        /\ current_goal \in TopGoals \ {g1}
        /\ SuspendedMark(g1) \in atoms
        /\ Subgoals(State, g1) # {}
        /\ \A h \in Subgoals(State, g1) : findTaskForGoal(State, h) \in Tasks

(***************************************************************************)
(* Properties of setGoal without decomposition, checked under              *)
(* SpecAchievement.                                                        *)
(***************************************************************************)
\* the tasks in the maps of s that are not tasks of the present state
NewTasks(s) == DOMAIN s.task_status \ Tasks

\* C17: setGoal(d, autoDecompose) with autoDecompose = false, or with goal
\* decomposition disabled, creates no subgoal and exactly one new task, which
\* has priority HIGH, status Pending, no dependencies and is associated with
\* the goal.
C17_OnePrimaryTask ==
    \A d \in RootDescriptions \ {""}, auto_decompose \in BOOLEAN :
        ~(auto_decompose /\ enable_goal_decomposition) =>
            LET s == setGoal(State, d, auto_decompose)
            IN  /\ HierarchyEdges(s) = HierarchyEdges(State)
                /\ Cardinality(NewTasks(s)) = 1
                /\ \A t \in NewTasks(s) :
                       /\ s.task_priorities[t] = HIGH
                       /\ s.task_status[t] = PENDING
                       /\ Dependencies(s, t) = <<>>
                       /\ Link("EvaluationLink", <<t, s.result>>) \in s.atoms

(***************************************************************************)
(* The KnowledgeIntegrator: knowledge atoms, the concept registry, concept *)
(* formation and the consistency check.                                    *)
(***************************************************************************)
\* the nodes initializeKnowledgeStructures creates
knowledge_base == Node("ConceptNode", AgentName \o "_KnowledgeBase")

working_knowledge == Node("ConceptNode", AgentName \o "_WorkingKnowledge")

semantic_network == Node("ConceptNode", AgentName \o "_SemanticNetwork")

episodic_memory == Node("ConceptNode", AgentName \o "_EpisodicMemory")

procedural_memory == Node("ConceptNode", AgentName \o "_ProceduralMemory")

\* KnowledgeIntegrator::_knowledge_categories, by KnowledgeType
knowledge_categories ==
    "FACTUAL" :> Node("ConceptNode", AgentName \o "_Facts")
    @@ "PROCEDURAL" :> procedural_memory
    @@ "EPISODIC" :> episodic_memory
    @@ "SEMANTIC" :> semantic_network

\* the prefix createKnowledgeAtom gives the name, by KnowledgeType
KnowledgePrefix ==
    "FACTUAL" :> "Fact_" @@ "PROCEDURAL" :> "Proc_" @@ "EPISODIC" :> "Episode_"
    @@ "SEMANTIC" :> "Semantic_" @@ "CONDITIONAL" :> "Rule_" @@ "TEMPORAL" :> "Temporal_"

createKnowledgeAtom(s, content, type) ==
    LET knowledge_atom == Node("ConceptNode", KnowledgePrefix[type] \o content)
        s1 == add_node(s, "ConceptNode", KnowledgePrefix[type] \o content)
        s2 == IF type \in DOMAIN knowledge_categories
                  THEN add_link(s1, "MemberLink",
                                <<knowledge_categories[type], knowledge_atom>>)
                  ELSE s1
    IN  Return(s2, knowledge_atom)

addFact(s, fact_description, confidence) ==
    LET s1 == createKnowledgeAtom(s, fact_description, "FACTUAL")
        fact_atom == s1.result
        s2 == setTruthValue(s1, fact_atom, confidence * 10, 900)
    IN  Return(add_link(s2, "MemberLink", <<knowledge_base, fact_atom>>), fact_atom)

addEpisode(s, experience_description, context_atoms, confidence) ==
    LET s1 == createKnowledgeAtom(s, experience_description, "EPISODIC")
        episode_atom == s1.result
        s2 == [s1 EXCEPT !.atoms =
                   @ \cup {Link("EvaluationLink", <<episode_atom, context_atoms[i]>>) :
                              i \in 1..Len(context_atoms)}]
    IN  Return(setTruthValue(s2, episode_atom, confidence * 10, 900), episode_atom)

\* the registry keeps the name given last and forgets the others
findOrCreateConcept_ForgetsOthers(s, concept_name) ==
    IF concept_name \in DOMAIN s.concept_registry
        THEN Return(s, s.concept_registry[concept_name])
    ELSE LET concept == Node("ConceptNode", concept_name)
             s1 == add_node(s, "ConceptNode", concept_name)
         IN  Return([s1 EXCEPT !.concept_registry = MapPut(<<>>, concept_name, concept)],
                    concept)

findOrCreateConcept(s, concept_name) ==
    IF concept_name \in DOMAIN s.concept_registry
        THEN Return(s, s.concept_registry[concept_name])
    ELSE LET concept == Node("ConceptNode", concept_name)
             s1 == add_node(s, "ConceptNode", concept_name)
         IN  Return([s1 EXCEPT !.concept_registry = MapPut(@, concept_name, concept)],
                    concept)

registerConcept(s, concept_name, concept_description) ==
    LET s1 == findOrCreateConcept(s, concept_name)
        concept == s1.result
        s2 == IF concept_description # ""
                  THEN addFact(s1, concept_name \o " is " \o concept_description,
                               CONFIDENCE_HIGH)
                  ELSE s1
    IN  Return(s2, concept)

hasKnowledgeAbout(s, concept_name) == concept_name \in DOMAIN s.concept_registry

(***************************************************************************)
(* Characters and strings: std::isalnum, std::tolower, and the order of    *)
(* std::string that std::map<std::string, ...> iterates its keys in.       *)
(***************************************************************************)
Digits == "0123456789"

UpperCase == "ABCDEFGHIJKLMNOPQRSTUVWXYZ"

LowerCase == "abcdefghijklmnopqrstuvwxyz"

\* the characters of the names in the model, in the order of their codes
CharacterOrder == " !," \o Digits \o UpperCase \o "_" \o LowerCase

CharAt(str, i) == SubSeq(str, i, i)

\* the place of a character in a table, 0 if it is not in it
IndexIn(table, c) ==
    IF \E i \in 1..Len(table) : CharAt(table, i) = c
        THEN CHOOSE i \in 1..Len(table) : CharAt(table, i) = c
        ELSE 0

isalnum(c) ==
    \/ IndexIn(Digits, c) > 0
    \/ IndexIn(UpperCase, c) > 0
    \/ IndexIn(LowerCase, c) > 0

tolower(c) ==
    IF IndexIn(UpperCase, c) > 0 THEN CharAt(LowerCase, IndexIn(UpperCase, c)) ELSE c

\* std::string::operator<
StringLess(a, b) ==
    \E i \in 1..(Min(Len(a), Len(b)) + 1) :
        /\ SubSeq(a, 1, i - 1) = SubSeq(b, 1, i - 1)
        /\ \/ i > Len(a) /\ i <= Len(b)
           \/ /\ i <= Len(a) /\ i <= Len(b)
              /\ IndexIn(CharacterOrder, CharAt(a, i)) < IndexIn(CharacterOrder, CharAt(b, i))

\* the strings of a set in increasing order
RECURSIVE InStringOrder(_)
InStringOrder(S) ==
    IF S = {} THEN <<>>
    ELSE LET first == CHOOSE x \in S : \A y \in S \ {x} : StringLess(x, y)
         IN  <<first>> \o InStringOrder(S \ {first})

(***************************************************************************)
(* Concept formation.                                                      *)
(***************************************************************************)
\* the cleaned tokens of a name from character i on, clean_term being the
\* cleaned part of the token read so far: tokens are separated by spaces and
\* keep their alphanumeric characters, in lower case (a token that keeps no
\* character counts nowhere and is left out)
RECURSIVE CleanedTokens(_, _, _)
CleanedTokens(atom_name, i, clean_term) ==
    IF i > Len(atom_name)
        THEN IF clean_term # "" THEN <<clean_term>> ELSE <<>>
    ELSE IF CharAt(atom_name, i) = " "
        THEN (IF clean_term # "" THEN <<clean_term>> ELSE <<>>)
             \o CleanedTokens(atom_name, i + 1, "")
    ELSE IF isalnum(CharAt(atom_name, i))
        THEN CleanedTokens(atom_name, i + 1, clean_term \o tolower(CharAt(atom_name, i)))
    ELSE CleanedTokens(atom_name, i + 1, clean_term)

\* the terms formConceptsFrom counts in a name: the cleaned tokens of more
\* than 2 characters
CleanTerms(atom_name) ==
    SelectSeq(CleanedTokens(atom_name, 1, ""), LAMBDA clean_term : Len(clean_term) > 2)

\* the terms of the names addEpisode gives its atoms, computed once
EpisodeTerms ==
    [atom_name \in {"Episode_" \o EpisodeDescriptionSeq[i] :
                       i \in 1..Len(EpisodeDescriptionSeq)} |->
        CleanTerms(atom_name)]

TermsOf(atom_name) ==
    IF atom_name \in DOMAIN EpisodeTerms
        THEN EpisodeTerms[atom_name]
        ELSE CleanTerms(atom_name)

\* the terms of experience_atoms[i..]
RECURSIVE ExperienceTerms(_, _)
ExperienceTerms(experience_atoms, i) ==
    IF i > Len(experience_atoms) THEN <<>>
    ELSE TermsOf(experience_atoms[i].name) \o ExperienceTerms(experience_atoms, i + 1)

\* the map term_frequency of formConceptsFrom
TermFrequency(experience_atoms) ==
    LET terms == ExperienceTerms(experience_atoms, 1)
    IN  [term \in Range(terms) |-> Cardinality({i \in 1..Len(terms) : terms[i] = term})]

Max(a, b) == IF a > b THEN a ELSE b

\* std::max(2, static_cast<int>(size * 0.3)): the product is cut to an
\* integer, which for the sizes of the model is the floor of 3 size / 10
MinFrequency(size) == Max(2, (size * 3) \div 10)

\* the loop of formConceptsFrom over term_frequency from its i-th term on
RECURSIVE FormConcepts(_, _, _, _, _, _)
FormConcepts(s, term_frequency, min_frequency, terms, i, new_concepts) ==
    IF i > Len(terms) THEN Return(s, new_concepts)
    ELSE IF /\ term_frequency[terms[i]] >= min_frequency
            /\ ~hasKnowledgeAbout(s, "Concept_" \o terms[i])
        THEN LET s1 == registerConcept(s, "Concept_" \o terms[i],
                                       "Auto-formed concept from experience patterns")
             IN  FormConcepts(s1, term_frequency, min_frequency, terms, i + 1,
                              Append(new_concepts, s1.result))
    ELSE FormConcepts(s, term_frequency, min_frequency, terms, i + 1, new_concepts)

formConceptsFrom(s, experience_atoms) ==
    IF ~s.enable_concept_formation THEN Return(s, <<>>)
    ELSE LET term_frequency == TermFrequency(experience_atoms)
         IN  FormConcepts(s, term_frequency, MinFrequency(Len(experience_atoms)),
                          InStringOrder(DOMAIN term_frequency), 1, <<>>)

(***************************************************************************)
(* The consistency check.                                                  *)
(***************************************************************************)
\* std::string::find(' '): the place of the first space, 0 for npos
FirstSpace(atom_name) ==
    IF \E i \in 1..Len(atom_name) : CharAt(atom_name, i) = " "
        THEN CHOOSE i \in 1..Len(atom_name) :
                 /\ CharAt(atom_name, i) = " "
                 /\ \A j \in 1..(i - 1) : CharAt(atom_name, j) # " "
        ELSE 0

\* the subject of a name with a space: what is before the first space
Subject(atom_name) == SubSeq(atom_name, 1, FirstSpace(atom_name) - 1)

\* the atoms validateKnowledgeConsistency groups, as the AtomSpace enumerates
\* them: the nodes with a space in their name (a link has no name)
NamedFacts(s) ==
    InHandleOrder({h \in s.atoms : IsNode(h) /\ FirstSpace(h.name) > 0})

\* fact_groups: the atoms of each subject, in the order of the enumeration
FactGroups(s) ==
    LET all_facts == NamedFacts(s)
    IN  [subject \in {Subject(all_facts[i].name) : i \in 1..Len(all_facts)} |->
            SelectSeq(all_facts, LAMBDA h : Subject(h.name) = subject)]

\* the atoms the two loops over a group push from the pair (i, j) on
RECURSIVE FlaggedPairs(_, _, _, _)
FlaggedPairs(s, group, i, j) ==
    IF i > Len(group) THEN <<>>
    ELSE IF j > Len(group) THEN FlaggedPairs(s, group, i + 1, i + 2)
    ELSE (IF /\ getTruthValue(s, group[i])[1] > 500
             /\ getTruthValue(s, group[j])[1] < 500
              THEN <<group[i], group[j]>>
              ELSE <<>>)
         \o FlaggedPairs(s, group, i, j + 1)

\* the loop over fact_groups from the i-th subject on
RECURSIVE InconsistentFrom(_, _, _, _)
InconsistentFrom(s, fact_groups, subjects, i) ==
    IF i > Len(subjects) THEN <<>>
    ELSE (IF Len(fact_groups[subjects[i]]) > 1
              THEN FlaggedPairs(s, fact_groups[subjects[i]], 1, 2)
              ELSE <<>>)
         \o InconsistentFrom(s, fact_groups, subjects, i + 1)

validateKnowledgeConsistency(s) ==
    LET fact_groups == FactGroups(s)
    IN  InconsistentFrom(s, fact_groups, InStringOrder(DOMAIN fact_groups), 1)

(***************************************************************************)
(* SpecKnowledge: the KnowledgeIntegrator is constructed on the AtomSpace  *)
(* of the TaskManager; episodes are added, concepts registered and formed  *)
(* from batches of episodes.                                               *)
(***************************************************************************)
\* formConceptsFrom is called with at most this many experience items
MaxItems == 7

InitKnowledge ==
    /\ atoms = {task_context, goal_context, execution_context, goal_hierarchy_root,
                knowledge_base, working_knowledge, semantic_network, episodic_memory,
                procedural_memory, knowledge_categories["FACTUAL"]}
    /\ tv = <<>>
    /\ task_queue = <<>>
    /\ task_status = <<>>
    /\ task_priorities = <<>>
    /\ task_dependencies = <<>>
    /\ current_task = UNDEFINED
    /\ current_goal = UNDEFINED
    /\ enable_goal_decomposition = TRUE
    /\ enable_priority_scheduling = TRUE
    /\ hashSeed \in HashSeeds
    /\ call_stack = <<>>
    /\ concept_registry = <<>>
    /\ enable_concept_formation = TRUE
    /\ LoopConstructed

\* the confidence levels addFact is called with
FactConfidences == {CONFIDENCE_LOW, VERY_HIGH}

AddFact ==
    \E d \in Range(FactDescriptionSeq), confidence \in FactConfidences :
        Becomes(addFact(State, d, confidence))

AddEpisode ==
    \E d \in Range(EpisodeDescriptionSeq) :
        Becomes(addEpisode(State, d, <<>>, CONFIDENCE_HIGH))

RegisterConcept ==
    \E n \in Range(ConceptNameSeq), description \in {"", "round"} :
        Becomes(registerConcept(State, n, description))

\* the episodes in the AtomSpace
Episodes(s) ==
    {h \in s.atoms : IsNode(h) /\ StartsWith(h.name, KnowledgePrefix["EPISODIC"])}

\* a batch with counts[h] times the item h, the items in handle order
RECURSIVE BatchOf(_, _, _)
BatchOf(items, counts, i) ==
    IF i > Len(items) THEN <<>>
    ELSE [k \in 1..counts[items[i]] |-> items[i]] \o BatchOf(items, counts, i + 1)

\* the batches of experience items over a set of atoms, one for each way of
\* repeating the items: formConceptsFrom counts terms, whatever the order of
\* the items
Batches(items) ==
    {BatchOf(InHandleOrder(items), counts, 1) :
        counts \in {c \in [items -> 0..MaxItems] : SetSum(c, items) <= MaxItems}}

FormConceptsFrom ==
    \E experience_atoms \in Batches(Episodes(State)) :
        Becomes(formConceptsFrom(State, experience_atoms))

SetConceptFormationEnabled ==
    \E enable \in BOOLEAN :
        Becomes([State EXCEPT !.enable_concept_formation = enable])

NextKnowledge ==
    \/ AddEpisode
    \/ RegisterConcept
    \/ FormConceptsFrom
    \/ SetConceptFormationEnabled

SpecKnowledge == InitKnowledge /\ [][NextKnowledge]_vars

(***************************************************************************)
(* SpecConsistency: facts are added and concepts registered with a         *)
(* description, which is recorded as a fact.                               *)
(***************************************************************************)
NextConsistency ==
    \/ AddFact
    \/ RegisterConcept

SpecConsistency == InitKnowledge /\ [][NextConsistency]_vars

(***************************************************************************)
(* Properties of the concept registry and of concept formation, checked    *)
(* under SpecKnowledge.                                                    *)
(***************************************************************************)
\* the names registerConcept is tried with: the inputs and the registered names
TriedConceptNames == Range(ConceptNameSeq) \cup DOMAIN concept_registry

\* two calls of registerConcept with a name return the same reference, which
\* is the one the registry holds for the name, and a registered name refers
\* to one node of the AtomSpace
RegisterConceptIdempotent ==
    /\ \A n \in TriedConceptNames, d1 \in {"", "round"}, d2 \in {"", "round"} :
           LET first == registerConcept(State, n, d1)
               second == registerConcept(first, n, d2)
           IN  /\ second.result = first.result
               /\ first.result = first.concept_registry[n]
               /\ second.concept_registry = first.concept_registry
    /\ \A n \in DOMAIN concept_registry :
           /\ concept_registry[n] \in atoms
           /\ IsNode(concept_registry[n])

\* a step keeps every registered name and its reference
RegistryKept ==
    \A n \in DOMAIN concept_registry :
        /\ n \in DOMAIN concept_registry'
        /\ concept_registry'[n] = concept_registry[n]

\* C18: for every name n, two calls of registerConcept(n) return the same
\* Concept reference; each registered name maps to exactly one reference, and
\* a registered name is never removed from the registry.
C18_RegistryIdempotent == []RegisterConceptIdempotent /\ [][RegistryKept]_vars

\* the registry holds a name registered by the caller and a concept formed
\* from experience, and registering the first again returns its reference
C18_Witness ==
    /\ "Sun" \in DOMAIN concept_registry
    /\ "Concept_sat" \in DOMAIN concept_registry
    /\ Cardinality(DOMAIN concept_registry) >= 3
    /\ registerConcept(State, "Sun", "round").result = concept_registry["Sun"]
    /\ registerConcept(State, "Sun", "round").concept_registry = concept_registry

\* the cleaned tokens of all items of a batch
RECURSIVE BatchTokens(_, _)
BatchTokens(items, i) ==
    IF i > Len(items) THEN <<>>
    ELSE CleanedTokens(items[i].name, 1, "") \o BatchTokens(items, i + 1)

\* the number of occurrences of a term across the items of a batch
Occurrences(term, items) ==
    LET tokens == BatchTokens(items, 1)
    IN  Cardinality({i \in 1..Len(tokens) : tokens[i] = term})

\* max(2, ceil(0.3 size))
CeilingThreshold(size) == Max(2, (3 * size + 9) \div 10)

\* C19: formConceptsFrom(items), with concept formation enabled, creates the
\* concept Concept_<t> for a cleaned term t iff t occurs at least
\* max(2, ceil(0.3 * number of items)) times across the items, t is longer
\* than 2 characters and Concept_<t> is not registered yet.
C19_FormationThreshold ==
    enable_concept_formation =>
        \A items \in Batches(Episodes(State)) :
            \A term \in Range(BatchTokens(items, 1)) :
                ("Concept_" \o term
                     \in DOMAIN formConceptsFrom(State, items).concept_registry
                             \ DOMAIN concept_registry)
                <=> /\ Occurrences(term, items) >= CeilingThreshold(Len(items))
                    /\ Len(term) > 2
                    /\ "Concept_" \o term \notin DOMAIN concept_registry

(***************************************************************************)
(* Properties of the consistency check, checked under SpecConsistency.     *)
(***************************************************************************)
\* the nodes that have a subject: a space in their name
NodesWithSubject == {h \in atoms : IsNode(h) /\ FirstSpace(h.name) > 0}

\* C20: validateKnowledgeConsistency returns both items of every pair of
\* nodes that share the first whitespace-delimited token of their names and
\* whose strengths lie on opposite sides of 0.5, whichever of the two is
\* enumerated first; a group whose items all have strength > 0.5 contributes
\* no item.
C20_OppositePairsFlagged ==
    LET flagged == Range(validateKnowledgeConsistency(State))
    IN  /\ \A a \in NodesWithSubject, b \in NodesWithSubject :
               (/\ Subject(a.name) = Subject(b.name)
                /\ getTruthValue(State, a)[1] > 500
                /\ getTruthValue(State, b)[1] < 500)
               => {a, b} \subseteq flagged
        /\ \A a \in NodesWithSubject :
               (\A b \in NodesWithSubject :
                    Subject(b.name) = Subject(a.name) => getTruthValue(State, b)[1] > 500)
               => a \notin flagged

(***************************************************************************)
(* Properties of updateKnowledgeConfidence without evidence, checked under *)
(* SpecBelief.                                                             *)
(***************************************************************************)
\* the evidence lists without a defined handle
UndefinedEvidence == UNION {[1..n -> {UNDEFINED}] : n \in 0..MaxEvidence}

\* C21: updateKnowledgeConfidence(item, evidence) on a defined item with no
\* defined evidence element returns Medium and leaves the belief value of the
\* item (and of every atom) as it was.
C21_NoEvidenceNoChange ==
    \A k \in GoalAtoms(State) \cup Tasks, evidence \in UndefinedEvidence :
        LET s == updateKnowledgeConfidence(State, k, evidence)
        IN  /\ s.result = CONFIDENCE_MEDIUM
            /\ getTruthValue(s, k) = getTruthValue(State, k)
            /\ s.tv = tv
            /\ s.atoms = atoms

\* an item with a strength above 0 is updated with undefined evidence only,
\* where the same call with a task as evidence would revise it
C21_Witness ==
    \E k \in GoalAtoms(State), t \in Tasks :
        /\ getTruthValue(State, k)[1] > 0
        /\ updateKnowledgeConfidence(State, k, <<UNDEFINED, UNDEFINED>>).result
               = CONFIDENCE_MEDIUM
        /\ getTruthValue(updateKnowledgeConfidence(State, k, <<UNDEFINED, t>>), k)
               # getTruthValue(State, k)

(***************************************************************************)
(* queryKnowledge, and its properties, checked under SpecConsistency.      *)
(***************************************************************************)
\* the loop of queryKnowledge over all_atoms from the i-th atom on
RECURSIVE QueryFrom(_, _, _, _, _)
QueryFrom(all_atoms, query_text, max_results, i, results) ==
    IF i > Len(all_atoms) THEN results
    ELSE IF Contains(all_atoms[i].name, query_text)
        THEN IF Len(results) + 1 >= max_results
                 THEN Append(results, all_atoms[i])
                 ELSE QueryFrom(all_atoms, query_text, max_results, i + 1,
                                Append(results, all_atoms[i]))
    ELSE QueryFrom(all_atoms, query_text, max_results, i + 1, results)

\* the atoms with a name, as the AtomSpace enumerates them (a link has no name)
NamedAtoms(s) == InHandleOrder({h \in s.atoms : IsNode(h)})

queryKnowledge(s, query_text, max_results) ==
    QueryFrom(NamedAtoms(s), query_text, max_results, 1, <<>>)

\* the texts and the limits queryKnowledge is called with
QueryTexts == {"Sun", "cold", "is", "", "Moon"}

QueryLimits == 0..3

\* C22: queryKnowledge(text, maxResults) returns at most maxResults items,
\* for every maxResults >= 0; every returned item is a node whose name
\* contains text, and the items are the first matches in enumeration order.
C22_QueryLimit ==
    \A query_text \in QueryTexts, max_results \in QueryLimits :
        LET results == queryKnowledge(State, query_text, max_results)
            matches == SelectSeq(NamedAtoms(State),
                                 LAMBDA h : Contains(h.name, query_text))
        IN  /\ Len(results) <= max_results
            /\ \A i \in 1..Len(results) :
                   /\ IsNode(results[i])
                   /\ Contains(results[i].name, query_text)
            /\ Len(results) <= Len(matches)
            /\ results = SubSeq(matches, 1, Len(results))

(***************************************************************************)
(* CognitiveLoop: the scheduler of the cognitive cycle.                    *)
(*                                                                         *)
(* start, stop, pause and resume are called from the contexts Callers;     *)
(* start creates a thread that runs runMainLoop.  _running, _paused and    *)
(* _cycle_count are std::atomic, so a method is a sequence of steps, one   *)
(* per load or store of them, and the steps of different contexts and of   *)
(* the threads interleave.  A phase of a cycle is one step.                *)
(***************************************************************************)
\* the contexts the constructor creates
perception_context == Node("ConceptNode", AgentName \o "_Perception")

planning_context == Node("ConceptNode", AgentName \o "_Planning")

action_context == Node("ConceptNode", AgentName \o "_Action")

reflection_context == Node("ConceptNode", AgentName \o "_Reflection")

\* AgentZeroCore::_agent_self_atom, the atom that stands for the agent
agent_self_atom == Node("ConceptNode", AgentName)

\* consolidateMemory does nothing, so neither does the integration cycle
processKnowledgeIntegration(s) == Return(s, TRUE)

\* the four phases.  Each gives its context a truth value; perception and
\* action record an EvaluationLink, planning and reflection return what the
\* manager they delegate to returns.  fault: an operation of the phase throws
\* a std::exception before it has changed anything, which the phase catches.
executePerceptionPhase(s, fault) ==
    IF fault THEN Return(s, FALSE)
    ELSE Return(add_link(setTruthValue(s, perception_context, 800, 900),
                         "EvaluationLink", <<agent_self_atom, perception_context>>),
                TRUE)

executePlanningPhase(s, fault) ==
    IF fault THEN Return(s, FALSE)
    ELSE processTaskManagement(setTruthValue(s, planning_context, 700, 800))

executeActionPhase(s, fault) ==
    IF fault THEN Return(s, FALSE)
    ELSE Return(add_link(setTruthValue(s, action_context, 600, 700),
                         "EvaluationLink", <<agent_self_atom, action_context>>),
                TRUE)

executeReflectionPhase(s, fault) ==
    IF fault THEN Return(s, FALSE)
    ELSE processKnowledgeIntegration(setTruthValue(s, reflection_context, 500, 600))

executePhase(s, phase, fault) ==
    CASE phase = "perception" -> executePerceptionPhase(s, fault)
      [] phase = "planning" -> executePlanningPhase(s, fault)
      [] phase = "action" -> executeActionPhase(s, fault)
      [] phase = "reflection" -> executeReflectionPhase(s, fault)

\* where executeSingleCycle goes after a phase: the next phase, and after
\* the last one the update of the metrics and of the counter
AfterPhase(phase) ==
    CASE phase = "perception" -> "planning"
      [] phase = "planning" -> "action"
      [] phase = "action" -> "reflection"
      [] phase = "reflection" -> "count"

IsPhase(pc) == pc \in {Phases[i] : i \in 1..Len(Phases)}

\* executeSingleCycle is entered: cycle_success = true, no phase executed yet
EnterCycle(f) ==
    [f EXCEPT !.pc = Phases[1], !.cycle_success = TRUE, !.executed = <<>>]

\* the test of an if-statement of executeSingleCycle in the frame f of the
\* thread that executes it: the phase f is at is executed if it is enabled
PhaseRuns_UnlessFailed(f) == enable_phase[f.pc] /\ f.cycle_success

PhaseRuns(f) == enable_phase[f.pc]

\* the frame after the phase was executed: its result is ANDed into
\* cycle_success
AfterExecuting(f, ok) ==
    [f EXCEPT !.pc = AfterPhase(f.pc),
              !.cycle_success = @ /\ ok,
              !.executed = Append(@, [phase |-> f.pc, ok |-> ok])]

\* the frame after the phase was skipped
AfterSkipping(f) == [f EXCEPT !.pc = AfterPhase(f.pc)]

\* the managers and the AtomSpace stay as they are
StoreUnchanged ==
    UNCHANGED <<atoms, tv, task_queue, task_status, task_priorities,
                task_dependencies, current_task, current_goal,
                enable_goal_decomposition, enable_priority_scheduling,
                hashSeed, call_stack, concept_registry, enable_concept_formation>>

\* threads start() creates while fewer exist
MaxThreads == 2
\* cycles the threads begin while the counter is lower
MaxCycles == 2

\* a thread as std::thread creates it: at the loop test of runMainLoop
NewThread ==
    [pc |-> "while", cycle_success |-> TRUE, executed |-> <<>>, joined |-> FALSE]

\* the threads that have not left runMainLoop
Drivers == {t \in 1..Len(threads) : threads[t].pc # "done"}

InCall(c, op, pc) == calls[c].op = op /\ calls[c].pc = pc

\* the call of context c goes on at pc, having read thread and old
GoesWith(c, op, pc, thread, old) ==
    calls' = [calls EXCEPT ![c] = [Idle("none") EXCEPT !.op = op, !.pc = pc,
                                                       !.thread = thread, !.old = old]]

Goes(c, op, pc) == GoesWith(c, op, pc, calls[c].thread, calls[c].old)

Returns(c, value) == calls' = [calls EXCEPT ![c] = Idle(value)]

StartsInProgress == {c \in Callers : calls[c].op = "start"}

\* what a step of a control method leaves alone
ControlFrame ==
    UNCHANGED <<atoms, tv, task_queue, task_status, task_priorities,
                task_dependencies, current_task, current_goal,
                enable_goal_decomposition, enable_priority_scheduling,
                hashSeed, call_stack, concept_registry, enable_concept_formation,
                cycle_count, enable_phase>>

\* destroying the std::thread object of thread t: std::terminate if the
\* thread was not joined
DestroyThread(t) ==
    terminated' = (t # NoThread /\ ~threads'[t].joined)

(***************************************************************************)
(* start(), step by step: the test of _running, the two stores, the        *)
(* creation of the thread (which may fail: the catch block clears _running *)
(* and start returns false), and the assignment to _loop_thread.           *)
(* _loop_thread is not atomic: the assignment reads the std::thread it     *)
(* holds, stores the new one and destroys the old one, and another call    *)
(* may act between the read and the store.                                 *)
(***************************************************************************)
start(c) ==
    /\ ~terminated
    /\ \/ /\ calls[c].op = "idle"
          /\ Len(threads) + Cardinality(StartsInProgress) < MaxThreads
          /\ IF running THEN Returns(c, "true") ELSE Goes(c, "start", "set_running")
          /\ UNCHANGED <<running, paused, loop_thread, threads, terminated>>
       \/ /\ InCall(c, "start", "set_running")
          /\ running' = TRUE
          /\ Goes(c, "start", "set_paused")
          /\ UNCHANGED <<paused, loop_thread, threads, terminated>>
       \/ /\ InCall(c, "start", "set_paused")
          /\ paused' = FALSE
          /\ Goes(c, "start", "spawn")
          /\ UNCHANGED <<running, loop_thread, threads, terminated>>
       \/ /\ InCall(c, "start", "spawn")
          /\ \/ /\ threads' = Append(threads, NewThread)
                /\ GoesWith(c, "start", "assign", Len(threads) + 1, loop_thread)
                /\ UNCHANGED <<running, paused, loop_thread, terminated>>
             \/ /\ running' = FALSE
                /\ Returns(c, "false")
                /\ UNCHANGED <<paused, loop_thread, threads, terminated>>
       \/ /\ InCall(c, "start", "assign")
          /\ loop_thread' = calls[c].thread
          /\ UNCHANGED <<running, paused, threads>>
          /\ DestroyThread(calls[c].old)
          /\ IF terminated' THEN UNCHANGED calls ELSE Returns(c, "true")
    /\ ControlFrame

(***************************************************************************)
(* stop(): the test of _running, the two stores, the test of               *)
(* _loop_thread, join() and reset().  join() returns when the thread has   *)
(* left runMainLoop; on a thread that another call has joined it throws a  *)
(* std::system_error, which stop() does not catch.  The thread joined is   *)
(* the one _loop_thread held at the test or the one it holds now; through  *)
(* a null pointer the process dies.                                        *)
(***************************************************************************)
stop(c) ==
    /\ ~terminated
    /\ \/ /\ calls[c].op = "idle"
          /\ IF ~running THEN Returns(c, "true") ELSE Goes(c, "stop", "set_running")
          /\ UNCHANGED <<running, paused, loop_thread, threads, terminated>>
       \/ /\ InCall(c, "stop", "set_running")
          /\ running' = FALSE
          /\ Goes(c, "stop", "set_paused")
          /\ UNCHANGED <<paused, loop_thread, threads, terminated>>
       \/ /\ InCall(c, "stop", "set_paused")
          /\ paused' = FALSE
          /\ Goes(c, "stop", "test_thread")
          /\ UNCHANGED <<running, loop_thread, threads, terminated>>
       \/ /\ InCall(c, "stop", "test_thread")
          /\ IF loop_thread # NoThread /\ ~threads[loop_thread].joined
                 THEN GoesWith(c, "stop", "join", loop_thread, NoThread)
                 ELSE Returns(c, "true")
          /\ UNCHANGED <<running, paused, loop_thread, threads, terminated>>
       \/ /\ InCall(c, "stop", "join")
          /\ \E t \in {calls[c].thread, loop_thread} :
                IF t = NoThread
                    THEN /\ terminated' = TRUE
                         /\ UNCHANGED <<threads, calls>>
                ELSE IF threads[t].joined
                    THEN /\ Returns(c, "exception")
                         /\ UNCHANGED <<threads, terminated>>
                ELSE /\ threads[t].pc = "done"
                     /\ threads' = [threads EXCEPT ![t].joined = TRUE]
                     /\ Goes(c, "stop", "reset")
                     /\ UNCHANGED terminated
          /\ UNCHANGED <<running, paused, loop_thread>>
       \/ /\ InCall(c, "stop", "reset")
          /\ loop_thread' = NoThread
          /\ UNCHANGED <<running, paused, threads>>
          /\ DestroyThread(loop_thread)
          /\ IF terminated' THEN UNCHANGED calls ELSE Returns(c, "true")
    /\ ControlFrame

pause_WithoutRunningTest(c) ==
    /\ ~terminated
    /\ \/ /\ calls[c].op = "idle"
          /\ Goes(c, "pause", "test_paused")
          /\ UNCHANGED paused
       \/ /\ InCall(c, "pause", "test_paused")
          /\ IF paused THEN Returns(c, "true") ELSE Goes(c, "pause", "set_paused")
          /\ UNCHANGED paused
       \/ /\ InCall(c, "pause", "set_paused")
          /\ paused' = TRUE
          /\ Returns(c, "true")
    /\ UNCHANGED <<running, loop_thread, threads, terminated>>
    /\ ControlFrame

\* pause(): false when not running, nothing to do when paused, else the store
pause(c) ==
    /\ ~terminated
    /\ \/ /\ calls[c].op = "idle"
          /\ IF ~running THEN Returns(c, "false") ELSE Goes(c, "pause", "test_paused")
          /\ UNCHANGED paused
       \/ /\ InCall(c, "pause", "test_paused")
          /\ IF paused THEN Returns(c, "true") ELSE Goes(c, "pause", "set_paused")
          /\ UNCHANGED paused
       \/ /\ InCall(c, "pause", "set_paused")
          /\ paused' = TRUE
          /\ Returns(c, "true")
    /\ UNCHANGED <<running, loop_thread, threads, terminated>>
    /\ ControlFrame

\* resume(): false when not running, nothing to do when not paused, else the store
resume(c) ==
    /\ ~terminated
    /\ \/ /\ calls[c].op = "idle"
          /\ IF ~running THEN Returns(c, "false") ELSE Goes(c, "resume", "test_paused")
          /\ UNCHANGED paused
       \/ /\ InCall(c, "resume", "test_paused")
          /\ IF ~paused THEN Returns(c, "true") ELSE Goes(c, "resume", "set_paused")
          /\ UNCHANGED paused
       \/ /\ InCall(c, "resume", "set_paused")
          /\ paused' = FALSE
          /\ Returns(c, "true")
    /\ UNCHANGED <<running, loop_thread, threads, terminated>>
    /\ ControlFrame

(***************************************************************************)
(* runMainLoop in thread t: while _running, sleep when _paused, else       *)
(* execute a cycle and sleep the cycle interval.  The result of the cycle  *)
(* is not used.  A thread at the loop test with _running set waits there   *)
(* once MaxCycles cycles are counted.                                      *)
(***************************************************************************)
ThreadGoes(t, pc) == threads' = [threads EXCEPT ![t].pc = pc]

runMainLoop_ExitsWhenPaused(t) ==
    /\ ~terminated
    /\ \/ /\ threads[t].pc = "while"
          /\ running => cycle_count < MaxCycles
          /\ ThreadGoes(t, IF running THEN "test_paused" ELSE "done")
       \/ /\ threads[t].pc = "test_paused"
          /\ IF paused THEN ThreadGoes(t, "done")
             ELSE threads' = [threads EXCEPT ![t] = EnterCycle(@)]
       \/ /\ threads[t].pc \in {"sleep_paused", "sleep_interval"}
          /\ ThreadGoes(t, "while")
    /\ UNCHANGED <<atoms, tv, task_queue, task_status, task_priorities,
                   task_dependencies, current_task, current_goal,
                   enable_goal_decomposition, enable_priority_scheduling,
                   hashSeed, call_stack, concept_registry, enable_concept_formation,
                   running, paused, loop_thread, cycle_count, enable_phase,
                   calls, terminated>>

runMainLoop_PausedSleepSkipsLoopTest(t) ==
    /\ ~terminated
    /\ \/ /\ threads[t].pc = "while"
          /\ running => cycle_count < MaxCycles
          /\ ThreadGoes(t, IF running THEN "test_paused" ELSE "done")
       \/ /\ threads[t].pc = "test_paused"
          /\ IF paused THEN ThreadGoes(t, "sleep_paused")
             ELSE threads' = [threads EXCEPT ![t] = EnterCycle(@)]
       \/ /\ threads[t].pc = "sleep_paused"
          /\ ThreadGoes(t, "test_paused")
       \/ /\ threads[t].pc = "sleep_interval"
          /\ ThreadGoes(t, "while")
    /\ UNCHANGED <<atoms, tv, task_queue, task_status, task_priorities,
                   task_dependencies, current_task, current_goal,
                   enable_goal_decomposition, enable_priority_scheduling,
                   hashSeed, call_stack, concept_registry, enable_concept_formation,
                   running, paused, loop_thread, cycle_count, enable_phase,
                   calls, terminated>>

runMainLoop(t) ==
    /\ ~terminated
    /\ \/ /\ threads[t].pc = "while"
          /\ running => cycle_count < MaxCycles
          /\ ThreadGoes(t, IF running THEN "test_paused" ELSE "done")
       \/ /\ threads[t].pc = "test_paused"
          /\ IF paused THEN ThreadGoes(t, "sleep_paused")
             ELSE threads' = [threads EXCEPT ![t] = EnterCycle(@)]
       \/ /\ threads[t].pc \in {"sleep_paused", "sleep_interval"}
          /\ ThreadGoes(t, "while")
    /\ UNCHANGED <<atoms, tv, task_queue, task_status, task_priorities,
                   task_dependencies, current_task, current_goal,
                   enable_goal_decomposition, enable_priority_scheduling,
                   hashSeed, call_stack, concept_registry, enable_concept_formation,
                   running, paused, loop_thread, cycle_count, enable_phase,
                   calls, terminated>>

\* the faults of the phases the threads execute
NoFault == {FALSE}

\* a step of the executeSingleCycle that runMainLoop has called in thread t:
\* a phase, or the update of the metrics and the increment of the counter
CycleStepInThread(t, faults) ==
    /\ ~terminated
    /\ \/ /\ IsPhase(threads[t].pc)
          /\ IF PhaseRuns(threads[t])
                 THEN \E fault \in faults :
                          \E r \in {executePhase(State, threads[t].pc, fault)} :
                              /\ threads' = [threads EXCEPT
                                                 ![t] = AfterExecuting(@, r.result)]
                              /\ StoreBecomes(r)
                 ELSE /\ threads' = [threads EXCEPT ![t] = AfterSkipping(@)]
                      /\ StoreUnchanged
          /\ UNCHANGED cycle_count
       \/ /\ threads[t].pc = "count"
          /\ cycle_count' = cycle_count + 1
          /\ ThreadGoes(t, "sleep_interval")
          /\ StoreUnchanged
    /\ UNCHANGED <<running, paused, loop_thread, enable_phase, calls, terminated>>

executeSingleCycle_InThread(t) == CycleStepInThread(t, NoFault)

\* the state after the constructors of the managers and of the loop
InitLoop ==
    /\ atoms = {task_context, goal_context, execution_context, goal_hierarchy_root,
                perception_context, planning_context, action_context,
                reflection_context}
    /\ tv = <<>>
    /\ task_queue = <<>>
    /\ task_status = <<>>
    /\ task_priorities = <<>>
    /\ task_dependencies = <<>>
    /\ current_task = UNDEFINED
    /\ current_goal = UNDEFINED
    /\ enable_goal_decomposition = TRUE
    /\ enable_priority_scheduling = TRUE
    /\ hashSeed \in HashSeeds
    /\ call_stack = <<>>
    /\ concept_registry = <<>>
    /\ enable_concept_formation = TRUE
    /\ LoopConstructed

Start == \E c \in Callers : start(c)

Stop == \E c \in Callers : stop(c)

Pause == \E c \in Callers : pause(c)

Resume == \E c \in Callers : resume(c)

RunMainLoop == \E t \in 1..Len(threads) : runMainLoop(t)

ExecuteSingleCycleInThread == \E t \in 1..Len(threads) : executeSingleCycle_InThread(t)

NextLoop ==
    \/ Start
    \/ Stop
    \/ Pause
    \/ Resume
    \/ RunMainLoop
    \/ ExecuteSingleCycleInThread

SpecLoop == InitLoop /\ [][NextLoop]_vars

\* C23: whatever the interleaving of start, stop, pause and resume calls
\* from any contexts, at most one thread is in runMainLoop at any time, and
\* a start() that finds the loop running returns true and creates no thread.
StartWhileRunning(c) == start(c) /\ calls[c].op = "idle" /\ running

C23_OneDriver ==
    /\ [](~terminated => Cardinality(Drivers) <= 1)
    /\ [][\A c \in Callers :
              StartWhileRunning(c) => calls'[c] = Idle("true") /\ threads' = threads]_vars

\* C28: in every reachable state, whatever the interleaving of start, stop,
\* pause and resume calls from any contexts, _paused is set only if _running
\* is set.
C28_PausedImpliesRunning == paused => running

\* C26: pause() and resume() on a loop that is not running return false and
\* leave _running and _paused as they are; a pause() on a running loop
\* returns true with _paused set, a resume() returns true with _paused
\* clear, neither touches _running, and a pause() of a paused loop and a
\* resume() of a loop that is not paused change nothing.
Called(c) == calls[c].op = "idle"

ReturnsFrom(c, op) == calls[c].op = op /\ calls'[c].op = "idle"

C26_PauseResume ==
    [][\A c \in Callers :
          /\ (pause(c) \/ resume(c)) /\ Called(c) /\ ~running
                => calls'[c] = Idle("false") /\ UNCHANGED <<running, paused>>
          /\ pause(c) /\ ReturnsFrom(c, "pause")
                => calls'[c] = Idle("true") /\ paused' /\ UNCHANGED running
          /\ resume(c) /\ ReturnsFrom(c, "resume")
                => calls'[c] = Idle("true") /\ ~paused' /\ UNCHANGED running
          /\ pause(c) /\ paused => UNCHANGED <<running, paused>>
          /\ resume(c) /\ ~paused => UNCHANGED <<running, paused>>]_vars

\* the loop was paused by a call that returned true after a call was refused
C26_Witness ==
    /\ running /\ paused
    /\ calls[1] = Idle("true")
    /\ calls[2] = Idle("false")
    /\ Len(threads) = 1

\* C27: while the loop is paused, from the return of pause() until the next
\* call of resume() or stop(), no thread executes a phase and the cycle
\* counter does not advance.
\* a pause() has returned and no call has begun since: _paused is set only
\* by the last store of pause(), with which it returns
PausedAndQuiet == running /\ paused /\ \A c \in Callers : calls[c].op = "idle"

ExecutesPhase(t) ==
    /\ IsPhase(threads[t].pc)
    /\ Len(threads'[t].executed) > Len(threads[t].executed)

C27_NoCycleWhilePaused ==
    [][PausedAndQuiet =>
          /\ cycle_count' = cycle_count
          /\ \A t \in 1..Len(threads) : ~ExecutesPhase(t)]_vars

(***************************************************************************)
(* The loop with one owner, context 1, that starts and stops it, while     *)
(* context 2 pauses and resumes it.  The scheduler gives every thread in   *)
(* runMainLoop its turn, the sleeps end, and a stop() that has been called *)
(* goes on.                                                                *)
(***************************************************************************)
OwnerStarts == start(1)

OwnerStops == stop(1)

OtherPauses == pause(2)

OtherResumes == resume(2)

StopGoesOn == stop(1) /\ calls[1].op = "stop"

NextStop ==
    \/ OwnerStarts
    \/ OwnerStops
    \/ OtherPauses
    \/ OtherResumes
    \/ RunMainLoop
    \/ ExecuteSingleCycleInThread

SpecStop ==
    /\ InitLoop
    /\ [][NextStop]_vars
    /\ WF_vars(RunMainLoop)
    /\ WF_vars(ExecuteSingleCycleInThread)
    /\ WF_vars(StopGoesOn)

\* C24: when a stop() that found the loop running returns, every thread has
\* left runMainLoop and _running and _paused are both false; while no thread
\* is in runMainLoop no phase is executed and the cycle counter stays; a
\* stop() that finds the loop not running returns true and changes nothing.
C24_StopStops ==
    [][/\ \A c \in Callers :
             /\ stop(c) /\ ReturnsFrom(c, "stop")
                   => /\ calls'[c] = Idle("true")
                      /\ Drivers' = {}
                      /\ ~running' /\ ~paused'
             /\ stop(c) /\ Called(c) /\ ~running
                   => /\ calls'[c] = Idle("true")
                      /\ UNCHANGED <<running, paused, loop_thread, threads,
                                     cycle_count>>
       /\ Drivers = {} =>
             /\ cycle_count' = cycle_count
             /\ \A t \in 1..Len(threads) : ~ExecutesPhase(t)]_vars

\* C25: under fair scheduling a stop() that found the loop running returns,
\* whether the thread is in the paused sleep, in the sleep between two
\* cycles or in a cycle, and whatever pause() and resume() calls interleave.
C25_StopReturns == (calls[1].op = "stop") ~> (calls[1].op = "idle")

\* stop() waits in join() while the thread is in the middle of a cycle and
\* a pause() is about to set _paused
C25_Witness ==
    /\ InCall(1, "stop", "join")
    /\ InCall(2, "pause", "set_paused")
    /\ threads[loop_thread].pc = "action"

(***************************************************************************)
(* executeSingleCycle called by one context on a loop that is not started, *)
(* between calls of configurePhases and createTask.  Here a phase may      *)
(* fail.                                                                   *)
(***************************************************************************)
BooleanResult(b) == IF b THEN "true" ELSE "false"

PhaseFaults == BOOLEAN

\* what a step of executeSingleCycle in context c leaves alone
CycleFrame ==
    UNCHANGED <<running, paused, loop_thread, enable_phase, threads, terminated>>

\* the catch block of executeSingleCycle is not reached: every phase catches
\* the std::exception it meets, and updateCycleMetrics throws none
executeSingleCycle_CountsSuccessOnly(c) ==
    /\ ~terminated
    /\ \/ /\ calls[c].op = "idle"
          /\ cycle_count < MaxCycles
          /\ calls' = [calls EXCEPT
                          ![c] = EnterCycle([Idle("none") EXCEPT
                                                 !.op = "executeSingleCycle"])]
          /\ UNCHANGED <<atoms, tv, task_queue, task_status, task_priorities,
                         task_dependencies, current_task, current_goal,
                         enable_goal_decomposition, enable_priority_scheduling,
                         hashSeed, call_stack, concept_registry,
                         enable_concept_formation, cycle_count>>
       \/ /\ calls[c].op = "executeSingleCycle"
          /\ IsPhase(calls[c].pc)
          /\ IF PhaseRuns(calls[c])
                 THEN \E fault \in PhaseFaults :
                          \E r \in {executePhase(State, calls[c].pc, fault)} :
                              /\ calls' = [calls EXCEPT
                                               ![c] = AfterExecuting(@, r.result)]
                              /\ StoreBecomes(r)
                 ELSE /\ calls' = [calls EXCEPT ![c] = AfterSkipping(@)]
                      /\ StoreUnchanged
          /\ UNCHANGED cycle_count
       \/ /\ InCall(c, "executeSingleCycle", "count")
          /\ cycle_count' = IF calls[c].cycle_success THEN cycle_count + 1
                            ELSE cycle_count
          /\ Returns(c, BooleanResult(calls[c].cycle_success))
          /\ StoreUnchanged
    /\ CycleFrame

executeSingleCycle(c) ==
    /\ ~terminated
    /\ \/ /\ calls[c].op = "idle"
          /\ cycle_count < MaxCycles
          /\ calls' = [calls EXCEPT
                          ![c] = EnterCycle([Idle("none") EXCEPT
                                                 !.op = "executeSingleCycle"])]
          /\ UNCHANGED <<atoms, tv, task_queue, task_status, task_priorities,
                         task_dependencies, current_task, current_goal,
                         enable_goal_decomposition, enable_priority_scheduling,
                         hashSeed, call_stack, concept_registry,
                         enable_concept_formation, cycle_count>>
       \/ /\ calls[c].op = "executeSingleCycle"
          /\ IsPhase(calls[c].pc)
          /\ IF PhaseRuns(calls[c])
                 THEN \E fault \in PhaseFaults :
                          \E r \in {executePhase(State, calls[c].pc, fault)} :
                              /\ calls' = [calls EXCEPT
                                               ![c] = AfterExecuting(@, r.result)]
                              /\ StoreBecomes(r)
                 ELSE /\ calls' = [calls EXCEPT ![c] = AfterSkipping(@)]
                      /\ StoreUnchanged
          /\ UNCHANGED cycle_count
       \/ /\ InCall(c, "executeSingleCycle", "count")
          /\ cycle_count' = cycle_count + 1
          /\ Returns(c, BooleanResult(calls[c].cycle_success))
          /\ StoreUnchanged
    /\ CycleFrame

ExecuteSingleCycle == executeSingleCycle(1)

\* configurePhases between two cycles
ConfigurePhases ==
    \E flags \in [DOMAIN enable_phase -> BOOLEAN] :
        /\ calls[1].op = "idle"
        /\ enable_phase' = flags
        /\ UNCHANGED <<atoms, tv, task_queue, task_status, task_priorities,
                       task_dependencies, current_task, current_goal,
                       enable_goal_decomposition, enable_priority_scheduling,
                       hashSeed, call_stack, concept_registry,
                       enable_concept_formation, running, paused, loop_thread,
                       cycle_count, threads, calls, terminated>>

\* createTask between two cycles: the planning phase has a task to process
CreateTaskBetweenCycles ==
    /\ calls[1].op = "idle"
    /\ CreateTask

NextCycle ==
    \/ ConfigurePhases
    \/ CreateTaskBetweenCycles
    \/ ExecuteSingleCycle

SpecCycle == InitLoop /\ [][NextCycle]_vars

EnabledPhases == SelectSeq(Phases, LAMBDA p : enable_phase[p])

PhasesOf(executed) == [i \in 1..Len(executed) |-> executed[i].phase]

\* C29: a call of executeSingleCycle executes the enabled phases in the
\* order perception, planning, action, reflection and no other phase, and
\* increments the cycle counter once, with its last step, also when a phase
\* failed and when no phase is enabled.
C29_CycleOrderAndCount ==
    [][\A c \in Callers :
          executeSingleCycle(c) =>
              IF InCall(c, "executeSingleCycle", "count")
                  THEN /\ PhasesOf(calls[c].executed) = EnabledPhases
                       /\ cycle_count' = cycle_count + 1
                       /\ calls'[c].op = "idle"
                  ELSE cycle_count' = cycle_count]_vars

\* a cycle whose perception phase failed and whose action phase succeeded
\* was counted, and so was a second cycle with every phase disabled
C29_Witness ==
    /\ cycle_count = 2
    /\ calls[1] = Idle("true")
    /\ \A i \in 1..Len(Phases) : ~enable_phase[Phases[i]]
    /\ DOMAIN tv = {action_context}

\* C30: an enabled phase is executed also when an earlier phase of the same
\* cycle has failed, and executeSingleCycle returns true exactly when every
\* phase it executed returned true.
AllSucceeded(executed) == \A i \in 1..Len(executed) : executed[i].ok

C30_FailureDoesNotStopCycle ==
    [][\A c \in Callers :
          executeSingleCycle(c) /\ calls[c].op = "executeSingleCycle" =>
              IF InCall(c, "executeSingleCycle", "count")
                  THEN calls'[c].result
                           = BooleanResult(AllSucceeded(calls[c].executed))
                  ELSE enable_phase[calls[c].pc] =>
                           /\ Len(calls'[c].executed) = Len(calls[c].executed) + 1
                           /\ calls'[c].executed[Len(calls'[c].executed)].phase
                                  = calls[c].pc]_vars

\* the cycle is about to return false: planning failed, action and
\* reflection were executed after it and succeeded
C30_Witness ==
    /\ InCall(1, "executeSingleCycle", "count")
    /\ ~calls[1].cycle_success
    /\ calls[1].executed = <<[phase |-> "perception", ok |-> TRUE],
                             [phase |-> "planning", ok |-> FALSE],
                             [phase |-> "action", ok |-> TRUE],
                             [phase |-> "reflection", ok |-> TRUE]>>

(***************************************************************************)
(* The loop started and stopped by its owner, context 1, while context 2   *)
(* calls executeSingleCycle, which is a public method.                     *)
(***************************************************************************)
OtherExecutesSingleCycle == executeSingleCycle(2)

NextManual ==
    \/ OwnerStarts
    \/ OwnerStops
    \/ RunMainLoop
    \/ ExecuteSingleCycleInThread
    \/ OtherExecutesSingleCycle

SpecManual == InitLoop /\ [][NextManual]_vars

\* the threads and the calling contexts that are in executeSingleCycle at a
\* phase: the phase is the step they take next
ThreadsInPhase == {t \in 1..Len(threads) : IsPhase(threads[t].pc)}

CallsInPhase == {c \in Callers : calls[c].op = "executeSingleCycle" /\ IsPhase(calls[c].pc)}

\* C31: no two phase executions overlap: at any time at most one context,
\* thread or caller, is in a phase of a cycle.
C31_OnePhaseAtATime == Cardinality(ThreadsInPhase) + Cardinality(CallsInPhase) <= 1

(***************************************************************************)
(* The loop with its owner and a context that pauses and resumes it, where *)
(* the phases the thread executes may fail.  The scheduler gives the       *)
(* thread its turn and the sleeps end.                                     *)
(***************************************************************************)
ExecuteSingleCycleInThreadWithFaults ==
    \E t \in 1..Len(threads) : CycleStepInThread(t, PhaseFaults)

NextRun ==
    \/ OwnerStarts
    \/ OwnerStops
    \/ OtherPauses
    \/ OtherResumes
    \/ RunMainLoop
    \/ ExecuteSingleCycleInThreadWithFaults

SpecRun ==
    /\ InitLoop
    /\ [][NextRun]_vars
    /\ WF_vars(RunMainLoop)
    /\ WF_vars(ExecuteSingleCycleInThreadWithFaults)

\* start() has stored its thread and the loop is running and not paused
RunningUnpaused == running /\ ~paused /\ loop_thread # NoThread

\* C32: under fair scheduling a thread leaves runMainLoop only when it finds
\* _running false, and while the loop stays running and not paused the
\* cycle counter exceeds every value it has had (below MaxCycles, where the
\* model stops counting), whatever the phases return; this holds after a
\* resume() as it does after start().
C32_KeepsCycling ==
    /\ [][\A t \in 1..Len(threads) :
              threads[t].pc # "done" /\ threads'[t].pc = "done" => ~running]_vars
    /\ \A n \in 0..(MaxCycles - 1) :
          (RunningUnpaused /\ cycle_count = n)
              ~> (cycle_count > n \/ ~running \/ paused)

\* after a pause() and a resume() the thread has finished a further cycle,
\* one with a failed phase
C32_Witness ==
    /\ running /\ ~paused
    /\ calls[2] = Idle("true")
    /\ cycle_count = MaxCycles
    /\ \E t \in 1..Len(threads) :
          threads[t].pc = "sleep_interval" /\ ~threads[t].cycle_success

(***************************************************************************)
(* SpecDependency: tasks are created, made to depend on one another and    *)
(* cancelled, and the manager runs task-management cycles; no task is      *)
(* completed from outside a cycle.                                         *)
(***************************************************************************)
NextDependency ==
    \/ CreateTask
    \/ AddTaskDependency
    \/ CancelTask
    \/ ProcessTaskManagement

SpecDependency == Init /\ [][NextDependency]_vars

\* the sequences of created tasks that start at t, follow the dependency
\* lists and come back to t
CyclesThrough(t) ==
    {path \in UNION {[1..n -> Tasks] : n \in 1..Cardinality(Tasks)} :
        /\ path[1] = t
        /\ \A i \in 1..(Len(path) - 1) : path[i + 1] \in DependenciesOf(path[i])
        /\ t \in DependenciesOf(path[Len(path)])}

OnCycle(t) == CyclesThrough(t) # {}

\* a cycle none of whose tasks is Completed
OnOpenCycle(t) ==
    \E path \in CyclesThrough(t) :
        \A i \in 1..Len(path) : task_status[path[i]] # COMPLETED

getPendingTaskCount(s) == Len(s.task_queue)

PendingTasks == {t \in Tasks : task_status[t] = PENDING}

\* C34: getPendingTaskCount() equals the number of tasks whose status is
\* Pending.
C34_PendingCount == getPendingTaskCount(State) = Cardinality(PendingTasks)

(***************************************************************************)
(* SpecQueue: the operations of Spec and clearPendingTasks().              *)
(***************************************************************************)
\* the queue is popped until it is empty; the number of pops is returned
clearPendingTasks(s) ==
    Return([s EXCEPT !.task_queue = <<>>], Len(s.task_queue))

ClearPendingTasks ==
    Becomes(clearPendingTasks(State))

NextQueue ==
    \/ Next
    \/ ClearPendingTasks

SpecQueue == Init /\ [][NextQueue]_vars

\* C35: a clearPendingTasks() call returns the number of tasks it cleared and
\* leaves getPendingTaskCount() at 0, and neither getNextTask() nor
\* processCycle() then selects a task that was Pending before the call.
C35_ClearedNotSelected ==
    [][ClearPendingTasks =>
          LET s == clearPendingTasks(State)
          IN  /\ s.result = Len(task_queue)
              /\ getPendingTaskCount(s) = 0
              /\ getNextTask(s) \notin PendingTasks
              /\ StartNextTask(s).current_task \notin PendingTasks]_vars

(***************************************************************************)
(* SpecUnknown: tasks are created, completed, cancelled and processed, and *)
(* completeTask() and cancelTask() are also called with an atom that       *)
(* createTask() never returned.                                            *)
(***************************************************************************)
\* atoms of the AtomSpace that are no tasks
UnknownHandles == {task_context, execution_context}

CompleteUnknownTask ==
    \E h \in UnknownHandles, success \in BOOLEAN :
        Becomes(completeTask(State, h, success))

CancelUnknownTask ==
    \E h \in UnknownHandles :
        Becomes(cancelTask(State, h))

NextUnknown ==
    \/ CreateTask
    \/ CompleteTask
    \/ CancelTask
    \/ ProcessTaskManagement
    \/ CompleteUnknownTask
    \/ CancelUnknownTask

SpecUnknown == Init /\ [][NextUnknown]_vars

\* C36: the handles with a status entry are the handles with a priority
\* entry, every task createTask() returned is among them, and no handle that
\* createTask() never returned has an entry in either map.
C36_StatusAndPriorityKeys ==
    /\ DOMAIN task_status = DOMAIN task_priorities
    /\ Range(task_queue) \subseteq DOMAIN task_status
    /\ DOMAIN task_status \subseteq Range(task_queue)

(***************************************************************************)
(* SpecProcess: tasks are created and made to depend on one another, and   *)
(* processCycle() is called again and again; nothing is cancelled or       *)
(* failed.                                                                 *)
(***************************************************************************)
NextProcess ==
    \/ CreateTask
    \/ AddTaskDependency
    \/ ProcessTaskManagement

\* the processCycle() step written with the task getNextTask() returns and
\* the state after starting it each bound once
ProcessCycle ==
    \E next_task \in {IF current_task = UNDEFINED THEN getNextTask(State) ELSE current_task} :
        \E s1 \in {IF current_task = UNDEFINED /\ next_task # UNDEFINED
                       THEN updateTaskStatus([State EXCEPT !.current_task = next_task],
                                             next_task, ACTIVE)
                       ELSE State} :
            Becomes(Return(IF next_task # UNDEFINED
                               THEN completeTask(s1, next_task, TRUE)
                               ELSE s1,
                           TRUE))

\* the caller goes on calling processCycle()
SpecProcess ==
    Init /\ [][NextProcess]_vars /\ WF_vars(ProcessCycle)

AcyclicDependencies == \A t \in Tasks : ~OnCycle(t)

\* C37: while the dependencies are acyclic, a processCycle() call made when
\* some task is Pending completes exactly one Pending task and changes no
\* other status, and repeated calls end with every created task Completed
\* (the steps of ProcessCycle, which the caller goes on taking, are those of
\* processTaskManagement()).
C37_AllCompleted ==
    /\ [][ProcessTaskManagement /\ AcyclicDependencies /\ PendingTasks # {} =>
              \E t \in PendingTasks :
                  task_status' = [task_status EXCEPT ![t] = COMPLETED]]_vars
    /\ <>[](AcyclicDependencies => \A t \in Tasks : task_status[t] = COMPLETED)
    /\ [][ProcessCycle <=> ProcessTaskManagement]_vars

\* two tasks, one depending on the other, have both been completed
C37_Witness ==
    /\ AcyclicDependencies
    /\ Cardinality(Tasks) = 2
    /\ DependencyCount > 0
    /\ Len(task_queue) = MaxQueue
    /\ \A t \in Tasks : task_status[t] = COMPLETED

(***************************************************************************)
(* SpecQuery: facts are added and the knowledge about a concept is asked   *)
(* for.                                                                    *)
(***************************************************************************)
\* the atoms other than query_atom in the links of links[i..]
RECURSIVE RelatedFrom(_, _, _)
RelatedFrom(links, query_atom, i) ==
    IF i > Len(links) THEN <<>>
    ELSE SelectSeq(links[i].out, LAMBDA atom : atom # query_atom)
             \o RelatedFrom(links, query_atom, i + 1)

findRelatedKnowledge(s, query_atom) ==
    RelatedFrom(InHandleOrder(getIncomingSet(s, query_atom)), query_atom, 1)

getFactsAbout(s, concept_name) ==
    LET s1 == findOrCreateConcept(s, concept_name)
    IN  Return(s1, findRelatedKnowledge(s1, s1.result))

getSemanticRelations(s, concept_name, relation_type) ==
    LET s1 == findOrCreateConcept(s, concept_name)
    IN  Return(s1, findRelatedKnowledge(s1, s1.result))

\* the names the queries are called with: two that the facts mention and one
\* that they do not
QueryNames == {"Sun", "hot", "Moon"}

GetFactsAbout ==
    \E n \in QueryNames :
        \E r \in {getFactsAbout(State, n)} : Becomes(r)

GetSemanticRelations ==
    \E n \in QueryNames :
        \E r \in {getSemanticRelations(State, n, "")} : Becomes(r)

NextQuery ==
    \/ AddFact
    \/ GetFactsAbout
    \/ GetSemanticRelations

SpecQuery == InitKnowledge /\ [][NextQuery]_vars

\* C38: a call of getFactsAbout() or getSemanticRelations() leaves
\* hasKnowledgeAbout(n) as it was, for every name n (the other queries,
\* hasKnowledgeAbout, queryKnowledge, validateKnowledgeConsistency and
\* exportKnowledge, assign nothing).
C38_QueriesKeepRegistry ==
    [][GetFactsAbout \/ GetSemanticRelations =>
          \A n \in QueryNames \cup Range(ConceptNameSeq) :
              (n \in DOMAIN concept_registry') = hasKnowledgeAbout(State, n)]_vars

(***************************************************************************)
(* The current task, checked under Spec.                                   *)
(***************************************************************************)
\* C39: between operations the current task is undefined and no task is
\* Active or Suspended; inside processCycle() the task taken is Active and
\* current, and no task is Suspended there either.
C39_NoCurrentTask ==
    /\ current_task = UNDEFINED
    /\ \A t \in Tasks : task_status[t] \notin {ACTIVE, SUSPENDED}
    /\ LET s1 == StartNextTask(State)
       IN  \A t \in DOMAIN s1.task_status :
               /\ s1.task_status[t] # SUSPENDED
               /\ s1.task_status[t] = ACTIVE <=> t = s1.current_task

\* a cycle has completed a task, and the next cycle will take another one
\* through Active
C39_Witness ==
    /\ \E t \in Tasks : task_status[t] = COMPLETED
    /\ LET s1 == StartNextTask(State)
       IN  /\ s1.current_task # UNDEFINED
           /\ s1.task_status[s1.current_task] = ACTIVE
           /\ processTaskManagement(State).current_task = UNDEFINED
           /\ processTaskManagement(State).task_status[s1.current_task] = COMPLETED

\* C40: a createTask() call leaves the status, the priority and the
\* dependency list of every task that existed before the call as they were.
C40_CreateTaskFrame ==
    [][CreateTask =>
          \A t \in Tasks :
              /\ t \in DOMAIN task_status' /\ task_status'[t] = task_status[t]
              /\ t \in DOMAIN task_priorities' /\ task_priorities'[t] = task_priorities[t]
              /\ t \in DOMAIN task_dependencies =>
                     /\ t \in DOMAIN task_dependencies'
                     /\ task_dependencies'[t] = task_dependencies[t]]_vars

====
